---------------------------- MODULE Spec2Model ----------------------------
(***************************************************************************)
(* Subscription-gated visibility, order lifecycle and idempotency engine   *)
(* of the SALO marketplace backend.                                        *)
(*                                                                         *)
(* The module holds four state machines over one set of variables:         *)
(*   SpecOrderEntity       the Order entity's transition methods           *)
(*   SpecRestaurantEntity  the Restaurant entity's methods                 *)
(*   Spec                  the order / product use cases behind the        *)
(*                         idempotency guard, with the audit trail         *)
(*   SpecAdmin             subscriptions, payment validation, restaurant   *)
(*                         status and the customer-facing reads            *)
(* A machine leaves the variables of the others at their idle values.      *)
(***************************************************************************)
EXTENDS Integers, Sequences, FiniteSets, TLC

VARIABLES
    now,          \* wall clock (new Date()), in ticks
    ent,          \* the Order entity under test (OrderProps)
    entRes,       \* the last entity call: action, argument and outcome
    entHist,      \* statuses the entity under test has had, oldest first
    rent,         \* the Restaurant entity under test (RestaurantProps)
    rentOp,       \* the last Restaurant method applied to rent
    sent,         \* the Subscription entity under test (SubscriptionProps)
    sentOp,       \* the last Subscription method applied to sent
    runs,         \* expiration job runs in progress: run -> its locals
    faults,       \* repository calls that may still throw
    calls,        \* dashboard calls in progress: worker -> its locals
    orders,       \* order table: id -> row or NoRow
    products,     \* product table: id -> row or NoRow
    restaurants,  \* restaurant table: id -> row or NoRow
    subs,         \* subscription table: id -> row or NoRow
    idem,         \* idempotency cache: key -> stored JSON text or NoRecord
    audit,        \* audit log, append-only, oldest first
    last          \* the last request that wrote to a store, and its result

vars == <<now, ent, entRes, entHist, rent, rentOp, sent, sentOp, runs,
          faults, calls, orders, products, restaurants, subs, idem, audit, last>>

entityVars == <<ent, entRes, entHist>>
rentVars   == <<rent, rentOp>>
sentVars   == <<sent, sentOp>>
sweepVars  == <<runs, faults>>
storeVars  == <<orders, products, restaurants, subs, idem, audit, last>>

(***************************************************************************)
(* Bounds of the model.                                                    *)
(***************************************************************************)
MaxTime == 3
MaxEntityTime == 1
MaxReasonLen == 2
MaxAudit == 2

(***************************************************************************)
(* JavaScript values.                                                      *)
(***************************************************************************)
\* A string is a sequence of characters; " " is white space, "a" is not.
\* null and undefined in a string's place are one-element sequences that
\* are no string; in a Date's or an object's place they are records.
Chars == {" ", "a"}
Null == <<"null">>
Undefined == <<"undefined">>
NullDate == [null |-> TRUE]
UndefinedDate == [undefined |-> TRUE]
Date(t) == [date |-> t]
NoRow == [absent |-> TRUE]
NoRecord == [absent |-> TRUE]

RECURSIVE StringsOfLen(_)
StringsOfLen(n) ==
    IF n = 0 THEN {<<>>}
    ELSE {<<c>> \o s : c \in Chars, s \in StringsOfLen(n - 1)}

StringsUpTo(n) == UNION {StringsOfLen(k) : k \in 0..n}

RECURSIVE trimStart(_)
trimStart(s) ==
    IF s = <<>> THEN <<>>
    ELSE IF Head(s) = " " THEN trimStart(Tail(s)) ELSE s

RECURSIVE trimEnd(_)
trimEnd(s) ==
    IF s = <<>> THEN <<>>
    ELSE IF s[Len(s)] = " " THEN trimEnd(SubSeq(s, 1, Len(s) - 1)) ELSE s

\* String.prototype.trim
trim(s) == trimEnd(trimStart(s))

\* !reason || reason.trim() === ''
BlankReason(reason) ==
    reason \in {Undefined, Null} \/ reason = <<>> \/ trim(reason) = <<>>

\* a || b for a string-or-absent a
OrElse(a, b) == IF a \in {Undefined, Null} \/ a = <<>> THEN b ELSE a

(***************************************************************************)
(* Order entity (domain/entities/order.entity.ts).                         *)
(***************************************************************************)
OrderStatus ==
    {"PENDING", "ACCEPTED", "REJECTED", "CONFIRMED", "PREPARING", "READY",
     "DELIVERED", "CANCELLED", "REPORTED"}

\* Fault injection: a table in which REJECTED is not terminal.
VALID_TRANSITIONS_RejectedReopens ==
    [s \in OrderStatus |->
        CASE s = "PENDING"   -> <<"ACCEPTED", "REJECTED", "CANCELLED">>
          [] s = "ACCEPTED"  -> <<"CONFIRMED", "CANCELLED", "REPORTED">>
          [] s = "REJECTED"  -> <<"CANCELLED">>
          [] s = "CONFIRMED" -> <<"PREPARING", "CANCELLED", "REPORTED">>
          [] s = "PREPARING" -> <<"READY", "CANCELLED", "REPORTED">>
          [] s = "READY"     -> <<"DELIVERED", "REPORTED">>
          [] s = "DELIVERED" -> <<"REPORTED">>
          [] s = "CANCELLED" -> <<>>
          [] s = "REPORTED"  -> <<>>]

VALID_TRANSITIONS ==
    [s \in OrderStatus |->
        CASE s = "PENDING"   -> <<"ACCEPTED", "REJECTED", "CANCELLED">>
          [] s = "ACCEPTED"  -> <<"CONFIRMED", "CANCELLED", "REPORTED">>
          [] s = "REJECTED"  -> <<>>
          [] s = "CONFIRMED" -> <<"PREPARING", "CANCELLED", "REPORTED">>
          [] s = "PREPARING" -> <<"READY", "CANCELLED", "REPORTED">>
          [] s = "READY"     -> <<"DELIVERED", "REPORTED">>
          [] s = "DELIVERED" -> <<"REPORTED">>
          [] s = "CANCELLED" -> <<>>
          [] s = "REPORTED"  -> <<>>]

\* Array.prototype.includes
includes(arr, x) == \E i \in 1..Len(arr) : arr[i] = x

\* Fault injection: a check that ignores the table.
canTransitionToAny(o, newStatus) == o.status # newStatus

canTransitionTo(o, newStatus) == includes(VALID_TRANSITIONS[o.status], newStatus)

getValidNextStates(o) == VALID_TRANSITIONS[o.status]

canBeCancelled(o) == canTransitionTo(o, "CANCELLED")
canBeAccepted(o)  == canTransitionTo(o, "ACCEPTED")
canBeRejected(o)  == canTransitionTo(o, "REJECTED")
canBeReported(o)  == canTransitionTo(o, "REPORTED")

isPending(o)   == o.status = "PENDING"
isAccepted(o)  == o.status = "ACCEPTED"
isRejected(o)  == o.status = "REJECTED"
\* Fault injection: a test that never sees a cancelled order.
isCancelledNever(o) == FALSE
isCancelled(o) == o.status = "CANCELLED"
isReported(o)  == o.status = "REPORTED"

\* A method either returns a new Order or throws and returns nothing.
Returned(o) == [ok |-> TRUE, order |-> o, err |-> "none"]
Thrown(e)   == [ok |-> FALSE, order |-> NoRow, err |-> e]

accept(o, t) ==
    IF ~canBeAccepted(o) THEN Thrown("InvalidTransition")
    ELSE Returned([o EXCEPT !.status = "ACCEPTED", !.updatedAt = Date(t)])

\* Fault injection: a reject that stores the trimmed reason.
rejectTrimmed(o, reason, t) ==
    IF ~canBeRejected(o) THEN Thrown("InvalidTransition")
    ELSE IF BlankReason(reason) THEN Thrown("MissingReason")
    ELSE Returned([o EXCEPT !.status = "REJECTED",
                            !.rejectionReason = trim(reason),
                            !.updatedAt = Date(t)])

reject(o, reason, t) ==
    IF ~canBeRejected(o) THEN Thrown("InvalidTransition")
    ELSE IF BlankReason(reason) THEN Thrown("MissingReason")
    ELSE Returned([o EXCEPT !.status = "REJECTED",
                            !.rejectionReason = reason,
                            !.updatedAt = Date(t)])

\* Fault injection: a confirm that also takes a PENDING order.
confirmFromPending(o, t) ==
    IF ~(canTransitionTo(o, "CONFIRMED") \/ isPending(o))
    THEN Thrown("InvalidTransition")
    ELSE Returned([o EXCEPT !.status = "CONFIRMED", !.updatedAt = Date(t)])

confirm(o, t) ==
    IF ~canTransitionTo(o, "CONFIRMED") THEN Thrown("InvalidTransition")
    ELSE Returned([o EXCEPT !.status = "CONFIRMED", !.updatedAt = Date(t)])

startPreparing(o, t) ==
    IF ~canTransitionTo(o, "PREPARING") THEN Thrown("InvalidTransition")
    ELSE Returned([o EXCEPT !.status = "PREPARING", !.updatedAt = Date(t)])

markReady(o, t) ==
    IF ~canTransitionTo(o, "READY") THEN Thrown("InvalidTransition")
    ELSE Returned([o EXCEPT !.status = "READY", !.updatedAt = Date(t)])

markDelivered(o, t) ==
    IF ~canTransitionTo(o, "DELIVERED") THEN Thrown("InvalidTransition")
    ELSE Returned([o EXCEPT !.status = "DELIVERED", !.updatedAt = Date(t)])

\* Fault injection: a cancel that zeroes the amount of the order.
cancelRefunds(o, reason, t) ==
    IF ~canBeCancelled(o) THEN Thrown("InvalidTransition")
    ELSE Returned([o EXCEPT !.status = "CANCELLED",
                            !.cancellationReason = OrElse(reason, Null),
                            !.totalAmount = 0,
                            !.updatedAt = Date(t)])

cancel(o, reason, t) ==
    IF ~canBeCancelled(o) THEN Thrown("InvalidTransition")
    ELSE Returned([o EXCEPT !.status = "CANCELLED",
                            !.cancellationReason = OrElse(reason, Null),
                            !.updatedAt = Date(t)])

report(o, reason, t) ==
    IF ~canBeReported(o) THEN Thrown("InvalidTransition")
    ELSE IF BlankReason(reason) THEN Thrown("MissingReason")
    ELSE Returned([o EXCEPT !.status = "REPORTED",
                            !.reportReason = reason,
                            !.updatedAt = Date(t)])

EntityActions ==
    {"accept", "reject", "cancel", "report", "confirm", "startPreparing",
     "markReady", "markDelivered"}

\* The status an action moves the order to.
TargetOf(a) ==
    CASE a = "accept"         -> "ACCEPTED"
      [] a = "reject"         -> "REJECTED"
      [] a = "cancel"         -> "CANCELLED"
      [] a = "report"         -> "REPORTED"
      [] a = "confirm"        -> "CONFIRMED"
      [] a = "startPreparing" -> "PREPARING"
      [] a = "markReady"      -> "READY"
      [] a = "markDelivered"  -> "DELIVERED"

\* Dispatch of one entity method call.
Invoke(a, o, reason, t) ==
    CASE a = "accept"         -> accept(o, t)
      [] a = "reject"         -> reject(o, reason, t)
      [] a = "cancel"         -> cancel(o, reason, t)
      [] a = "report"         -> report(o, reason, t)
      [] a = "confirm"        -> confirm(o, t)
      [] a = "startPreparing" -> startPreparing(o, t)
      [] a = "markReady"      -> markReady(o, t)
      [] a = "markDelivered"  -> markDelivered(o, t)

(***************************************************************************)
(* Restaurant entity (domain/entities/restaurant.entity.ts).               *)
(***************************************************************************)
RestaurantStatus == {"PENDING", "ACTIVE", "SUSPENDED", "INACTIVE"}

isDeleted(r) == r.deletedAt # NullDate /\ r.deletedAt # UndefinedDate

isVisible(r) == r.status = "ACTIVE" /\ ~isDeleted(r)

visibility(r) == IF isVisible(r) THEN 100 ELSE 0

isActive(r) == r.status = "ACTIVE" /\ ~isDeleted(r)

canReceiveOrders(r) == isActive(r)

\* Fault injection: a suspend that leaves the status alone.
suspendKeepsStatus(r, t) == [r EXCEPT !.updatedAt = Date(t)]

suspend(r, t) == [r EXCEPT !.status = "SUSPENDED", !.updatedAt = Date(t)]

activate(r, t) == [r EXCEPT !.status = "ACTIVE", !.updatedAt = Date(t)]

softDelete(r, t) == [r EXCEPT !.deletedAt = Date(t), !.updatedAt = Date(t)]

restore(r, t) == [r EXCEPT !.deletedAt = NullDate, !.updatedAt = Date(t)]

(***************************************************************************)
(* Idle values: what a machine holds in the variables it does not use.     *)
(***************************************************************************)
IdleEntity ==
    /\ ent = NoRow
    /\ entRes = NoRow
    /\ entHist = <<>>

IdleRent ==
    /\ rent = NoRow
    /\ rentOp = "none"

IdleSent ==
    /\ sent = NoRow
    /\ sentOp = "none"

IdleSweep ==
    /\ runs = <<>>
    /\ faults = 0

IdleCalls == calls = <<>>

IdleStores ==
    /\ orders = <<>>
    /\ products = <<>>
    /\ restaurants = <<>>
    /\ subs = <<>>
    /\ idem = <<>>
    /\ audit = <<>>
    /\ last = NoRow

\* The clock advances.
Tick ==
    /\ now < MaxTime
    /\ now' = now + 1

(***************************************************************************)
(* SpecOrderEntity: one Order value and the methods applied to it.         *)
(***************************************************************************)
ReasonArgs == StringsUpTo(MaxReasonLen) \cup {Undefined}

\* new Order(props), as the unit tests build it, in any status.
OrderProps(id, status, key, customer, restaurant, total, t) ==
    [id |-> id, status |-> status, totalAmount |-> total, notes |-> Null,
     idempotencyKey |-> key, customerId |-> customer,
     restaurantId |-> restaurant, items |-> <<[menuItemId |-> "m1",
     quantity |-> 2, unitPrice |-> total \div 2]>>,
     rejectionReason |-> Null, reportReason |-> Null,
     cancellationReason |-> Null, createdAt |-> Date(t), updatedAt |-> Date(t)]

\* The order was built at time 0; its methods are called at time now.
EntityInit ==
    /\ now \in 0..MaxEntityTime
    /\ \E s \in OrderStatus :
          /\ ent = OrderProps("o1", s, "k1", "c1", "r1", 50, 0)
          /\ entHist = <<s>>
    /\ entRes = [action |-> "none", reason |-> Undefined, outcome |-> "none",
                 returned |-> NoRow]
    /\ IdleRent
    /\ IdleSent
    /\ IdleSweep
    /\ IdleCalls
    /\ IdleStores

\* order.<a>(reason): the caller keeps the new version when one is returned.
EntityCall(a, reason) ==
    LET r == Invoke(a, ent, reason, now) IN
    /\ ent' = IF r.ok THEN r.order ELSE ent
    /\ entRes' = [action |-> a, reason |-> reason,
                  outcome |-> IF r.ok THEN "ok" ELSE r.err,
                  returned |-> r.order]
    /\ entHist' = IF r.ok THEN Append(entHist, r.order.status) ELSE entHist
    /\ UNCHANGED <<calls, now, rentVars, sentVars, sweepVars, storeVars>>

EntityNext ==
    \/ EntityCall("accept", Undefined)
    \/ \E reason \in ReasonArgs : EntityCall("reject", reason)
    \/ \E reason \in ReasonArgs : EntityCall("cancel", reason)
    \/ \E reason \in ReasonArgs : EntityCall("report", reason)
    \/ EntityCall("confirm", Undefined)
    \/ EntityCall("startPreparing", Undefined)
    \/ EntityCall("markReady", Undefined)
    \/ EntityCall("markDelivered", Undefined)

SpecOrderEntity == EntityInit /\ [][EntityNext]_vars

(***************************************************************************)
(* SpecRestaurantEntity: one Restaurant value and the methods applied.     *)
(***************************************************************************)
RestaurantProps(id, status, owner, deletedAt, t) ==
    [id |-> id, status |-> status, ownerId |-> owner, deletedAt |-> deletedAt,
     createdAt |-> Date(t), updatedAt |-> Date(t)]

RentInit ==
    /\ now = 0
    /\ \E s \in RestaurantStatus, d \in {NullDate, UndefinedDate, Date(0)} :
          rent = RestaurantProps("r1", s, "u1", d, 0)
    /\ rentOp = "none"
    /\ IdleEntity
    /\ IdleSent
    /\ IdleSweep
    /\ IdleCalls
    /\ IdleStores

RentApply(op, r) ==
    /\ rent' = r
    /\ rentOp' = op
    /\ UNCHANGED <<calls, now, entityVars, sentVars, sweepVars, storeVars>>

RentNext ==
    \/ RentApply("suspend", suspend(rent, now))
    \/ RentApply("activate", activate(rent, now))
    \/ RentApply("softDelete", softDelete(rent, now))
    \/ RentApply("restore", restore(rent, now))
    \/ Tick /\ UNCHANGED <<calls, entityVars, rentVars, sentVars, sweepVars,
                         storeVars>>

SpecRestaurantEntity == RentInit /\ [][RentNext]_vars


(***************************************************************************)
(* Claims about the entities.                                              *)
(***************************************************************************)
\* The claims' own reading of "blank": absent, empty or white space only.
IsBlank(reason) ==
    reason \in {Undefined, Null} \/ \A i \in 1..Len(reason) : reason[i] = " "

\* Every step of SpecOrderEntity is a method call.
IsEntityCall == entRes'.action \in EntityActions

TerminalStatuses == {"REJECTED", "CANCELLED", "REPORTED"}

HappyPath ==
    <<"PENDING", "ACCEPTED", "CONFIRMED", "PREPARING", "READY", "DELIVERED">>

\* Whether sequence a occurs in sequence b, in order.
RECURSIVE OccursInOrder(_, _)
OccursInOrder(a, b) ==
    IF a = <<>> THEN TRUE
    ELSE IF b = <<>> THEN FALSE
    ELSE IF Head(a) = Head(b) THEN OccursInOrder(Tail(a), Tail(b))
    ELSE OccursInOrder(a, Tail(b))

\* C1: for every status s and every entity action a (reject and report with
\* a non-blank reason): when a's target status is in the transition-table
\* row of s the call succeeds and returns an order in exactly that status;
\* otherwise it fails with an invalid-transition error and returns no new
\* order version.
C1_TransitionClosure ==
    [][\A a \in EntityActions :
          (/\ IsEntityCall
           /\ entRes'.action = a
           /\ (a \in {"reject", "report"} => ~IsBlank(entRes'.reason)))
          => IF includes(VALID_TRANSITIONS[ent.status], TargetOf(a))
             THEN /\ entRes'.outcome = "ok"
                  /\ entRes'.returned # NoRow
                  /\ entRes'.returned.status = TargetOf(a)
                  /\ ent' = entRes'.returned
             ELSE /\ entRes'.outcome = "InvalidTransition"
                  /\ entRes'.returned = NoRow
                  /\ ent' = ent]_vars

\* The end-to-end scenario: accept, confirm, startPreparing, cancel, then a
\* further accept is refused.
C1_Witness ==
    /\ entHist = <<"PENDING", "ACCEPTED", "CONFIRMED", "PREPARING", "CANCELLED">>
    /\ entRes.action = "accept"
    /\ entRes.outcome = "InvalidTransition"

\* C3: REJECTED, CANCELLED and REPORTED are terminal: such an order has no
\* valid next state, every entity action on it fails and its status (the
\* whole order) never changes.
C3_TerminalClosure ==
    /\ [](ent.status \in TerminalStatuses => getValidNextStates(ent) = <<>>)
    /\ [][(IsEntityCall /\ ent.status \in TerminalStatuses)
            => /\ entRes'.outcome \in {"InvalidTransition", "MissingReason"}
               /\ entRes'.returned = NoRow
               /\ ent' = ent]_vars

\* An order rejected with a reason, on which a later cancel was refused.
C3_Witness ==
    /\ entHist = <<"PENDING", "REJECTED">>
    /\ entRes.action = "cancel"
    /\ entRes.outcome = "InvalidTransition"

\* C4: reject and report called from a status that allows them fail with a
\* missing-reason error and return no new version when the reason is blank,
\* and with a non-blank reason succeed and return an order carrying exactly
\* that string in rejectionReason (reportReason).
C4_ReasonEnforcement ==
    [][\A a \in {"reject", "report"} :
          (/\ IsEntityCall
           /\ entRes'.action = a
           /\ includes(VALID_TRANSITIONS[ent.status], TargetOf(a)))
          => IF IsBlank(entRes'.reason)
             THEN /\ entRes'.outcome = "MissingReason"
                  /\ entRes'.returned = NoRow
                  /\ ent' = ent
             ELSE /\ entRes'.outcome = "ok"
                  /\ ent'.status = TargetOf(a)
                  /\ a = "reject" => ent'.rejectionReason = entRes'.reason
                  /\ a = "report" => ent'.reportReason = entRes'.reason]_vars

\* A reason with leading white space was kept verbatim by reject.
C4_Witness ==
    /\ ent.status = "REJECTED"
    /\ ent.rejectionReason = <<" ", "a">>
    /\ entRes.action = "reject"
    /\ entRes.outcome = "ok"

\* C5: starting from PENDING, an order in a happy-path status past PENDING
\* has been in every earlier happy-path status, in order; in particular it
\* is never CONFIRMED without having been ACCEPTED.
C5_HappyPathOrder ==
    entHist[1] = "PENDING"
    => \A i \in 2..Len(HappyPath) :
          ent.status = HappyPath[i]
          => OccursInOrder(SubSeq(HappyPath, 1, i), entHist)

C5_Witness ==
    /\ entHist[1] = "PENDING"
    /\ ent.status = "DELIVERED"
    /\ entRes.action = "markDelivered"

\* C9: for every restaurant reached by suspend, activate, softDelete and
\* restore from any initial status: isVisible holds exactly when the status
\* is ACTIVE and deletedAt is not set; visibility is 100 exactly when
\* isVisible and 0 otherwise; canReceiveOrders() equals isActive(); right
\* after suspend() visibility is 0 and canReceiveOrders() is false.
C9_VisibilityInvariant ==
    /\ isVisible(rent)
          <=> (rent.status = "ACTIVE" /\ rent.deletedAt \in {NullDate, UndefinedDate})
    /\ (visibility(rent) = 100) <=> isVisible(rent)
    /\ (visibility(rent) = 0) <=> ~isVisible(rent)
    /\ canReceiveOrders(rent) <=> isActive(rent)
    /\ rentOp = "suspend" => (visibility(rent) = 0 /\ ~canReceiveOrders(rent))

\* A restaurant never deleted (deletedAt undefined) was active and has just
\* been suspended.
C9_Witness ==
    /\ rentOp = "suspend"
    /\ rent.status = "SUSPENDED"
    /\ rent.deletedAt = UndefinedDate
    /\ rent.updatedAt = Date(MaxTime)


(***************************************************************************)
(* Stores behind the use cases: Prisma tables and the Redis cache.         *)
(***************************************************************************)
\* Identifiers the database hands out, in the order it hands them out.
OrderIdSeq == <<"o1", "o2">>
OrderIds == {OrderIdSeq[i] : i \in 1..Len(OrderIdSeq)}
ProductIds == {"p1"}
RestaurantIds == {"r1"}
SubscriptionIds == {"s1"}
\* Client-supplied idempotency keys; u1 owns r1, u2 owns nothing.
Keys == {"k1", "k2"}
Owners == {"u1", "u2"}
Customers == {"c1"}

\* prisma.menuItem: m1 is on r1's menu, m2 is on it but not available.
MenuItemIds == {"m1", "m2"}
menuItem ==
    [i \in MenuItemIds |->
        [id |-> i, isAvailable |-> (i = "m1"), restaurantId |-> "r1",
         price |-> 25]]

\* JSON.stringify writes a Date as its ISO string; every other value of a
\* response body is written as it is.  JSON.parse gives the strings back.
toISOString(d) == [iso |-> d.date]
stringify(v) ==
    [text |-> [statusCode |-> v.statusCode,
               body |-> [v.body EXCEPT
                           !.createdAt = IF "date" \in DOMAIN @
                                         THEN toISOString(@) ELSE @,
                           !.updatedAt = IF "date" \in DOMAIN @
                                         THEN toISOString(@) ELSE @]]]
parse(cached) == cached.text

\* Fault injection: a guard that never finds a record.
checkMisses(key) == [exists |-> FALSE, response |-> NoRecord]

\* IdempotencyService.check
check(key) ==
    IF idem[key] # NoRecord
    THEN [exists |-> TRUE, response |-> parse(idem[key])]
    ELSE [exists |-> FALSE, response |-> NoRecord]

\* RedisService.set(key, value, ttl): the writer creates or overwrites the
\* value of its key.
redisSet(cache, key, value) == [cache EXCEPT ![key] = value]

\* Fault injection: a store that writes nothing.
storeSkipped(cache, key, statusCode, body) == cache

\* IdempotencyService.store
store(cache, key, statusCode, body) ==
    redisSet(cache, key,
             stringify([statusCode |-> statusCode, body |-> body]))

\* Fault injection: a create that overwrites the newest entry.
auditCreateUpsert(log, data) ==
    IF log = <<>> THEN <<data>> ELSE [log EXCEPT ![Len(log)] = data]

\* auditLogRepository.create
auditCreate(log, data) == Append(log, data)

\* PrismaRestaurantRepository.findById(id), deleted rows excluded
restaurantFindById(id) ==
    IF id \in DOMAIN restaurants /\ restaurants[id] # NoRow
       /\ restaurants[id].deletedAt = NullDate
    THEN restaurants[id] ELSE NoRow

\* Fault injection: an isValid that counts endDate = now as valid.
subscriptionIsValidInclusive(sub, t) ==
    /\ sub.status = "ACTIVE"
    /\ sub.endDate \notin {NullDate, UndefinedDate}
    /\ sub.endDate.date >= t

\* Subscription.isValid
subscriptionIsValid(sub, t) ==
    /\ sub.status = "ACTIVE"
    /\ sub.endDate \notin {NullDate, UndefinedDate}
    /\ sub.endDate.date > t

\* Subscription.isExpired
subscriptionIsExpired(sub, t) ==
    IF sub.endDate \in {NullDate, UndefinedDate}
    THEN sub.status = "EXPIRED"
    ELSE sub.endDate.date <= t

\* PrismaSubscriptionRepository.findActiveByRestaurantId: the ACTIVE row of
\* the restaurant created last.
findActiveByRestaurantId(restaurantId) ==
    LET active == {id \in DOMAIN subs :
                      /\ subs[id] # NoRow
                      /\ subs[id].restaurantId = restaurantId
                      /\ subs[id].status = "ACTIVE"}
    IN IF active = {} THEN NoRow
       ELSE subs[CHOOSE id \in active :
                    \A other \in active :
                       subs[other].createdAt.date <= subs[id].createdAt.date]

\* PrismaOrderRepository.findById
orderFindById(id) == IF id \in DOMAIN orders THEN orders[id] ELSE NoRow

\* Fault injection: a key lookup that never finds the order.
findByIdempotencyKeyMisses(key) == NoRow

\* PrismaOrderRepository.findByIdempotencyKey (findUnique on the key)
findByIdempotencyKey(key) ==
    LET hit == {id \in OrderIds :
                   orders[id] # NoRow /\ orders[id].idempotencyKey = key}
    IN IF hit = {} THEN NoRow ELSE orders[CHOOSE id \in hit : TRUE]

\* The id the database gives the next order, "none" when the table is full.
nextOrderId ==
    LET free == {i \in 1..Len(OrderIdSeq) : orders[OrderIdSeq[i]] = NoRow}
    IN IF free = {} THEN "none"
       ELSE OrderIdSeq[CHOOSE i \in free : \A j \in free : i <= j]

\* PrismaOrderRepository.updateStatus
orderUpdateStatus(order, status) ==
    [order EXCEPT !.status = status, !.updatedAt = Date(now)]

\* PrismaOrderRepository.updateOrderWithReason: only the reason fields that
\* are not undefined are written.
updateOrderWithReason(order, data) ==
    [order EXCEPT
       !.status = data.status,
       !.rejectionReason = IF data.rejectionReason = Undefined THEN @
                           ELSE data.rejectionReason,
       !.cancellationReason = IF data.cancellationReason = Undefined THEN @
                              ELSE data.cancellationReason,
       !.reportReason = IF data.reportReason = Undefined THEN @
                        ELSE data.reportReason,
       !.updatedAt = Date(now)]

\* toResponseDto / toOrderResponseDto
toOrderResponseDto(order) ==
    [id |-> order.id, status |-> order.status,
     totalAmount |-> order.totalAmount, notes |-> order.notes,
     customerId |-> order.customerId, restaurantId |-> order.restaurantId,
     items |-> order.items, createdAt |-> order.createdAt,
     updatedAt |-> order.updatedAt]

(***************************************************************************)
(* Use cases.  A handler is an operator over the current stores: it gives  *)
(* the value it returns (or the exception it throws) and the stores it     *)
(* leaves behind.                                                          *)
(***************************************************************************)
\* An optional argument: absent, or one value.
None == {}
Some(v) == {v}
\* a ?? b
Coalesce(a, b) == IF a = None THEN b ELSE CHOOSE v \in a : TRUE

\* uuidv4(): a value no other entry of the log carries.
uuidv4(log) == <<"uuid", Len(log) + 1>>

\* The handler throws: nothing is written.
Throw(e) ==
    [res |-> [path |-> "thrown", outcome |-> e, body |-> NoRow],
     orders |-> orders, products |-> products, idem |-> idem,
     audit |-> audit]

\* The handler returns body from the return statement named by path:
\* "replayed" (the guard's record), "found" (the row with the key),
\* "already" (the order is in the target status), "done" (the work ran).
Return(path, body, o, p, i, a) ==
    [res |-> [path |-> path, outcome |-> "ok", body |-> body],
     orders |-> o, products |-> p, idem |-> i, audit |-> a]

\* The loop over dto.items: the first exception it throws, else "ok".
RECURSIVE itemsOutcome(_, _)
itemsOutcome(items, restaurantId) ==
    IF items = <<>> THEN "ok"
    ELSE LET item == Head(items) IN
         IF item.menuItemId \notin DOMAIN menuItem THEN "NotFound"
         ELSE IF ~menuItem[item.menuItemId].isAvailable THEN "BadRequest"
         ELSE IF menuItem[item.menuItemId].restaurantId # restaurantId
              THEN "BadRequest"
         ELSE itemsOutcome(Tail(items), restaurantId)

\* orderItems and totalAmount as the loop builds them.
orderItemsOf(items) ==
    [i \in 1..Len(items) |->
        [menuItemId |-> items[i].menuItemId, quantity |-> items[i].quantity,
         unitPrice |-> menuItem[items[i].menuItemId].price]]

RECURSIVE totalAmountOf(_)
totalAmountOf(items) ==
    IF items = <<>> THEN 0
    ELSE menuItem[Head(items).menuItemId].price * Head(items).quantity
         + totalAmountOf(Tail(items))

\* OrderUseCase.create
orderCreate(dto, customerId, idempotencyKey) ==
    LET existingResult == check(idempotencyKey)
        existingOrder == findByIdempotencyKey(idempotencyKey)
        restaurant == restaurantFindById(dto.restaurantId)
        subscription == findActiveByRestaurantId(dto.restaurantId)
        \* prisma.order.create fails on a second row with the same key
        keyTaken == \E o \in OrderIds :
                       orders[o] # NoRow
                       /\ orders[o].idempotencyKey = idempotencyKey
        id == nextOrderId
        order ==
            [id |-> id, status |-> "PENDING",
             totalAmount |-> totalAmountOf(dto.items), notes |-> Null,
             idempotencyKey |-> idempotencyKey, customerId |-> customerId,
             restaurantId |-> dto.restaurantId,
             items |-> orderItemsOf(dto.items),
             rejectionReason |-> Null, reportReason |-> Null,
             cancellationReason |-> Null,
             createdAt |-> Date(now), updatedAt |-> Date(now)]
        response == toOrderResponseDto(order)
    IN
    IF existingResult.exists
    THEN Return("replayed", existingResult.response.body,
                orders, products, idem, audit)
    ELSE IF existingOrder # NoRow
    THEN Return("found", toOrderResponseDto(existingOrder),
                orders, products, idem, audit)
    ELSE IF restaurant = NoRow THEN Throw("NotFound")
    ELSE IF ~isActive(restaurant) THEN Throw("Forbidden")
    ELSE IF subscription = NoRow \/ ~subscriptionIsValid(subscription, now)
    THEN Throw("Forbidden")
    ELSE IF itemsOutcome(dto.items, dto.restaurantId) # "ok"
    THEN Throw(itemsOutcome(dto.items, dto.restaurantId))
    ELSE IF keyTaken THEN Throw("UniqueViolation")
    ELSE IF id = "none" THEN Throw("TableFull")
    ELSE Return("done", response,
                [orders EXCEPT ![id] = order], products,
                store(idem, idempotencyKey, 201, response),
                auditCreate(audit,
                    [action |-> "ORDER_CREATED", entityType |-> "Order",
                     entityId |-> id, previousState |-> NoRow,
                     newState |-> order, correlationId |-> uuidv4(audit),
                     userId |-> customerId]))

\* OrderUseCase.updateStatus
updateStatus(orderId, status, ownerId) ==
    LET order == orderFindById(orderId)
        restaurant == restaurantFindById(order.restaurantId)
        updatedOrder == orderUpdateStatus(order, status)
    IN
    IF order = NoRow THEN Throw("NotFound")
    ELSE IF restaurant = NoRow \/ restaurant.ownerId # ownerId
    THEN Throw("Forbidden")
    ELSE Return("done", toOrderResponseDto(updatedOrder),
                [orders EXCEPT ![orderId] = updatedOrder], products, idem,
                auditCreate(audit,
                    [action |-> "ORDER_UPDATED", entityType |-> "Order",
                     entityId |-> orderId, previousState |-> order,
                     newState |-> updatedOrder,
                     correlationId |-> uuidv4(audit), userId |-> ownerId]))

\* UpdateOrderStatusData with no reason field set.
UpdateOrderStatusData(status) ==
    [status |-> status, rejectionReason |-> Undefined,
     reportReason |-> Undefined, cancellationReason |-> Undefined]

\* RestaurantDashboardUseCase.acceptOrder
acceptOrder(orderId, ownerId, idempotencyKey) ==
    LET existingResult == check(idempotencyKey)
        order == orderFindById(orderId)
        restaurant == restaurantFindById(order.restaurantId)
        updatedOrder == orderUpdateStatus(order, "ACCEPTED")
        response == toOrderResponseDto(updatedOrder)
    IN
    IF existingResult.exists
    THEN Return("replayed", existingResult.response.body,
                orders, products, idem, audit)
    ELSE IF order = NoRow THEN Throw("NotFound")
    ELSE IF restaurant = NoRow \/ restaurant.ownerId # ownerId
    THEN Throw("Forbidden")
    ELSE IF isAccepted(order)
    THEN Return("already", toOrderResponseDto(order), orders, products,
                store(idem, idempotencyKey, 200, toOrderResponseDto(order)),
                audit)
    ELSE IF ~canBeAccepted(order) THEN Throw("InvalidTransition")
    ELSE Return("done", response,
                [orders EXCEPT ![orderId] = updatedOrder], products,
                store(idem, idempotencyKey, 200, response),
                auditCreate(audit,
                    [action |-> "ORDER_ACCEPTED", entityType |-> "Order",
                     entityId |-> orderId, previousState |-> order,
                     newState |-> updatedOrder,
                     correlationId |-> uuidv4(audit), userId |-> ownerId]))

\* RestaurantDashboardUseCase.rejectOrder
rejectOrder(orderId, reason, ownerId, idempotencyKey) ==
    LET existingResult == check(idempotencyKey)
        order == orderFindById(orderId)
        restaurant == restaurantFindById(order.restaurantId)
        updatedOrder == updateOrderWithReason(order,
                [UpdateOrderStatusData("REJECTED") EXCEPT
                    !.rejectionReason = reason])
        response == toOrderResponseDto(updatedOrder)
    IN
    IF BlankReason(reason) THEN Throw("MissingReason")
    ELSE IF existingResult.exists
    THEN Return("replayed", existingResult.response.body,
                orders, products, idem, audit)
    ELSE IF order = NoRow THEN Throw("NotFound")
    ELSE IF restaurant = NoRow \/ restaurant.ownerId # ownerId
    THEN Throw("Forbidden")
    ELSE IF isRejected(order)
    THEN Return("already", toOrderResponseDto(order), orders, products,
                store(idem, idempotencyKey, 200, toOrderResponseDto(order)),
                audit)
    ELSE IF ~canBeRejected(order) THEN Throw("InvalidTransition")
    ELSE Return("done", response,
                [orders EXCEPT ![orderId] = updatedOrder], products,
                store(idem, idempotencyKey, 200, response),
                auditCreate(audit,
                    [action |-> "ORDER_REJECTED", entityType |-> "Order",
                     entityId |-> orderId, previousState |-> order,
                     newState |-> updatedOrder,
                     correlationId |-> uuidv4(audit), userId |-> ownerId]))

\* Fault injection: the handler caches the error of an invalid transition.
cancelOrderStoresFailure(orderId, reason, ownerId, idempotencyKey) ==
    LET existingResult == check(idempotencyKey)
        order == orderFindById(orderId)
        restaurant == restaurantFindById(order.restaurantId)
        updatedOrder == updateOrderWithReason(order,
                [UpdateOrderStatusData("CANCELLED") EXCEPT
                    !.cancellationReason = OrElse(reason, Null)])
        response == toOrderResponseDto(updatedOrder)
    IN
    IF existingResult.exists
    THEN Return("replayed", existingResult.response.body,
                orders, products, idem, audit)
    ELSE IF order = NoRow THEN Throw("NotFound")
    ELSE IF restaurant = NoRow \/ restaurant.ownerId # ownerId
    THEN Throw("Forbidden")
    ELSE IF isCancelled(order)
    THEN Return("already", toOrderResponseDto(order), orders, products,
                store(idem, idempotencyKey, 200, toOrderResponseDto(order)),
                audit)
    ELSE IF ~canBeCancelled(order)
    THEN [Throw("InvalidTransition") EXCEPT
             !.idem = store(idem, idempotencyKey, 400,
                            toOrderResponseDto(order))]
    ELSE Return("done", response,
                [orders EXCEPT ![orderId] = updatedOrder], products,
                store(idem, idempotencyKey, 200, response),
                auditCreate(audit,
                    [action |-> "ORDER_CANCELLED", entityType |-> "Order",
                     entityId |-> orderId, previousState |-> order,
                     newState |-> updatedOrder,
                     correlationId |-> uuidv4(audit), userId |-> ownerId]))

\* RestaurantDashboardUseCase.cancelOrder
cancelOrder(orderId, reason, ownerId, idempotencyKey) ==
    LET existingResult == check(idempotencyKey)
        order == orderFindById(orderId)
        restaurant == restaurantFindById(order.restaurantId)
        updatedOrder == updateOrderWithReason(order,
                [UpdateOrderStatusData("CANCELLED") EXCEPT
                    !.cancellationReason = OrElse(reason, Null)])
        response == toOrderResponseDto(updatedOrder)
    IN
    IF existingResult.exists
    THEN Return("replayed", existingResult.response.body,
                orders, products, idem, audit)
    ELSE IF order = NoRow THEN Throw("NotFound")
    ELSE IF restaurant = NoRow \/ restaurant.ownerId # ownerId
    THEN Throw("Forbidden")
    ELSE IF isCancelled(order)
    THEN Return("already", toOrderResponseDto(order), orders, products,
                store(idem, idempotencyKey, 200, toOrderResponseDto(order)),
                audit)
    ELSE IF ~canBeCancelled(order) THEN Throw("InvalidTransition")
    ELSE Return("done", response,
                [orders EXCEPT ![orderId] = updatedOrder], products,
                store(idem, idempotencyKey, 200, response),
                auditCreate(audit,
                    [action |-> "ORDER_CANCELLED", entityType |-> "Order",
                     entityId |-> orderId, previousState |-> order,
                     newState |-> updatedOrder,
                     correlationId |-> uuidv4(audit), userId |-> ownerId]))

\* RestaurantDashboardUseCase.reportOrder
reportOrder(orderId, reason, ownerId, idempotencyKey) ==
    LET existingResult == check(idempotencyKey)
        order == orderFindById(orderId)
        restaurant == restaurantFindById(order.restaurantId)
        updatedOrder == updateOrderWithReason(order,
                [UpdateOrderStatusData("REPORTED") EXCEPT
                    !.reportReason = reason])
        response == toOrderResponseDto(updatedOrder)
    IN
    IF BlankReason(reason) THEN Throw("MissingReason")
    ELSE IF existingResult.exists
    THEN Return("replayed", existingResult.response.body,
                orders, products, idem, audit)
    ELSE IF order = NoRow THEN Throw("NotFound")
    ELSE IF restaurant = NoRow \/ restaurant.ownerId # ownerId
    THEN Throw("Forbidden")
    ELSE IF isReported(order)
    THEN Return("already", toOrderResponseDto(order), orders, products,
                store(idem, idempotencyKey, 200, toOrderResponseDto(order)),
                audit)
    ELSE IF ~canBeReported(order) THEN Throw("InvalidTransition")
    ELSE Return("done", response,
                [orders EXCEPT ![orderId] = updatedOrder], products,
                store(idem, idempotencyKey, 200, response),
                auditCreate(audit,
                    [action |-> "ORDER_REPORTED", entityType |-> "Order",
                     entityId |-> orderId, previousState |-> order,
                     newState |-> updatedOrder,
                     correlationId |-> uuidv4(audit), userId |-> ownerId]))

\* RestaurantDashboardUseCase.updateOrderStatus
updateOrderStatus(orderId, status, ownerId) ==
    LET order == orderFindById(orderId)
        restaurant == restaurantFindById(order.restaurantId)
        updatedOrder == orderUpdateStatus(order, status)
    IN
    IF order = NoRow THEN Throw("NotFound")
    ELSE IF restaurant = NoRow \/ restaurant.ownerId # ownerId
    THEN Throw("Forbidden")
    ELSE IF ~canTransitionTo(order, status) THEN Throw("InvalidTransition")
    ELSE Return("done", toOrderResponseDto(updatedOrder),
                [orders EXCEPT ![orderId] = updatedOrder], products, idem,
                auditCreate(audit,
                    [action |-> "ORDER_UPDATED", entityType |-> "Order",
                     entityId |-> orderId, previousState |-> order,
                     newState |-> updatedOrder,
                     correlationId |-> uuidv4(audit), userId |-> ownerId]))

(***************************************************************************)
(* Product use cases (ProductUseCase.create, ProductUseCase.update).       *)
(***************************************************************************)
\* Product.isVisible
productIsVisible(product) ==
    product.status = "ACTIVE" /\ product.deletedAt = NullDate

\* PrismaProductRepository.findById(id), deleted rows excluded
productFindById(id) ==
    IF id \in DOMAIN products /\ products[id] # NoRow
       /\ products[id].deletedAt = NullDate
    THEN products[id] ELSE NoRow

\* PrismaProductRepository.update: only the fields that are not undefined
\* are written.
productUpdateRow(product, data) ==
    [product EXCEPT
       !.quantity = Coalesce(data.quantity, @),
       !.status = Coalesce(data.status, @),
       !.updatedAt = Date(now)]

\* Product.updateQuantity
updateQuantity(product, quantity, t) ==
    IF quantity < 0 THEN Thrown("Quantity cannot be negative")
    ELSE Returned([product EXCEPT
                      !.quantity = quantity,
                      !.status = IF quantity = 0 /\ @ # "INACTIVE"
                                 THEN "OUT_OF_STOCK" ELSE @,
                      !.updatedAt = Date(t)])

\* ProductUseCase.toResponseDto
toProductResponseDto(product) ==
    [id |-> product.id, price |-> product.price,
     quantity |-> product.quantity, status |-> product.status,
     isFeatured |-> product.isFeatured,
     restaurantId |-> product.restaurantId,
     isVisible |-> productIsVisible(product),
     createdAt |-> product.createdAt, updatedAt |-> product.updatedAt]

\* ProductUseCase.create
productCreate(dto, restaurantId, ownerId, idempotencyKey) ==
    LET existingResult == check(idempotencyKey)
        restaurant == restaurantFindById(restaurantId)
        free == {id \in ProductIds : products[id] = NoRow}
        id == CHOOSE i \in free : TRUE
        product ==
            [id |-> id, price |-> dto.price,
             quantity |-> Coalesce(dto.quantity, 0),
             status |-> Coalesce(dto.status, "ACTIVE"),
             isFeatured |-> FALSE, deletedAt |-> NullDate,
             restaurantId |-> restaurantId,
             createdAt |-> Date(now), updatedAt |-> Date(now)]
        response == toProductResponseDto(product)
    IN
    IF existingResult.exists
    THEN Return("replayed", existingResult.response.body,
                orders, products, idem, audit)
    ELSE IF restaurant = NoRow THEN Throw("NotFound")
    ELSE IF restaurant.ownerId # ownerId THEN Throw("Forbidden")
    ELSE IF isDeleted(restaurant) THEN Throw("Forbidden")
    ELSE IF free = {} THEN Throw("TableFull")
    ELSE Return("done", response,
                orders, [products EXCEPT ![id] = product],
                store(idem, idempotencyKey, 201, response),
                auditCreate(audit,
                    [action |-> "PRODUCT_CREATED", entityType |-> "Product",
                     entityId |-> id, previousState |-> NoRow,
                     newState |-> product, correlationId |-> uuidv4(audit),
                     userId |-> ownerId]))

\* ProductUseCase.update
productUpdate(productId, dto, ownerId, idempotencyKey) ==
    LET existingResult == check(idempotencyKey)
        product == productFindById(productId)
        restaurant == restaurantFindById(product.restaurantId)
        updatedProduct == productUpdateRow(product, dto)
        response == toProductResponseDto(updatedProduct)
    IN
    IF existingResult.exists
    THEN Return("replayed", existingResult.response.body,
                orders, products, idem, audit)
    ELSE IF product = NoRow THEN Throw("NotFound")
    ELSE IF restaurant = NoRow \/ restaurant.ownerId # ownerId
    THEN Throw("Forbidden")
    ELSE Return("done", response,
                orders, [products EXCEPT ![productId] = updatedProduct],
                store(idem, idempotencyKey, 200, response),
                auditCreate(audit,
                    [action |-> "PRODUCT_UPDATED", entityType |-> "Product",
                     entityId |-> productId, previousState |-> product,
                     newState |-> updatedProduct,
                     correlationId |-> uuidv4(audit), userId |-> ownerId]))

(***************************************************************************)
(* Spec: requests to the order and product use cases, one at a time, over  *)
(* a restaurant and a subscription that do not change.                     *)
(***************************************************************************)
SubscriptionProps(id, status, restaurantId, startDate, endDate, t) ==
    [id |-> id, status |-> status, startDate |-> startDate,
     endDate |-> endDate, monthlyAmount |-> 100,
     restaurantId |-> restaurantId, createdAt |-> Date(t),
     updatedAt |-> Date(t)]

\* Arguments the requests are drawn from.
UseCaseReasons == {Undefined, <<" ">>, <<"a">>}
CreateOrderDtos ==
    {[restaurantId |-> "r1", items |-> <<[menuItemId |-> m, quantity |-> 2]>>]
        : m \in MenuItemIds}
CreateProductDtos ==
    {[price |-> 25, quantity |-> q, status |-> None] : q \in {None, Some(3)}}
UpdateProductDtos ==
    {[quantity |-> q, status |-> st]
        : q \in {None, Some(0)}, st \in {None, Some("INACTIVE")}}

\* What last records of a request that is not about an order.
NoArgs == [id |-> "none", status |-> "none", reason |-> Undefined,
           dto |-> NoRow]

Init ==
    /\ now = 0
    /\ IdleEntity
    /\ IdleRent
    /\ IdleSent
    /\ IdleSweep
    /\ IdleCalls
    /\ \E status \in {"ACTIVE", "SUSPENDED"}, endDate \in {0, MaxTime} :
          /\ restaurants =
                [id \in RestaurantIds |->
                    RestaurantProps(id, status, "u1", NullDate, 0)]
          /\ subs =
                [id \in SubscriptionIds |->
                    SubscriptionProps(id, "ACTIVE", "r1", Date(0),
                                      Date(endDate), 0)]
    /\ orders = [id \in OrderIds |-> NoRow]
    /\ products = [id \in ProductIds |-> NoRow]
    /\ idem = [k \in Keys |-> NoRecord]
    /\ audit = <<>>
    /\ last = [op |-> "none", key |-> "none", args |-> NoArgs,
               res |-> [path |-> "none", outcome |-> "none", body |-> NoRow]]

\* One request runs to its end: r is what the handler gives.  last keeps
\* the last request that wrote to a store.  The tables and the audit log
\* of the model are of bounded size.
Request(op, key, args, r) ==
    /\ r.res.outcome # "TableFull"
    /\ Len(r.audit) <= MaxAudit
    /\ orders' = r.orders
    /\ products' = r.products
    /\ idem' = r.idem
    /\ audit' = r.audit
    /\ last' = IF r.res.path \in {"done", "already"}
               THEN [op |-> op, key |-> key, args |-> args, res |-> r.res]
               ELSE last
    /\ UNCHANGED <<calls, now, entityVars, rentVars, sentVars, sweepVars,
                   restaurants, subs>>

\* The TTL of a record of the idempotency cache runs out.
IdemExpire ==
    \E key \in Keys :
       /\ idem[key] # NoRecord
       /\ idem' = [idem EXCEPT ![key] = NoRecord]
       /\ UNCHANGED <<calls, now, entityVars, rentVars, sentVars, sweepVars,
                      orders, products,
                      restaurants, subs, audit, last>>

Next ==
    \/ \E dto \in CreateOrderDtos, c \in Customers, key \in Keys :
          Request("orderCreate", key, [NoArgs EXCEPT !.dto = dto],
                  orderCreate(dto, c, key))
    \/ \E id \in OrderIds, u \in Owners, key \in Keys :
          Request("acceptOrder", key,
                  [NoArgs EXCEPT !.id = id, !.status = "ACCEPTED"],
                  acceptOrder(id, u, key))
    \/ \E id \in OrderIds, reason \in UseCaseReasons, u \in Owners,
          key \in Keys :
          Request("rejectOrder", key,
                  [NoArgs EXCEPT !.id = id, !.status = "REJECTED",
                                 !.reason = reason],
                  rejectOrder(id, reason, u, key))
    \/ \E id \in OrderIds, reason \in UseCaseReasons, u \in Owners,
          key \in Keys :
          Request("cancelOrder", key,
                  [NoArgs EXCEPT !.id = id, !.status = "CANCELLED",
                                 !.reason = reason],
                  cancelOrder(id, reason, u, key))
    \/ \E id \in OrderIds, reason \in UseCaseReasons, u \in Owners,
          key \in Keys :
          Request("reportOrder", key,
                  [NoArgs EXCEPT !.id = id, !.status = "REPORTED",
                                 !.reason = reason],
                  reportOrder(id, reason, u, key))
    \/ \E id \in OrderIds, status \in OrderStatus, u \in Owners :
          Request("updateOrderStatus", "none",
                  [NoArgs EXCEPT !.id = id, !.status = status],
                  updateOrderStatus(id, status, u))
    \/ \E id \in OrderIds, status \in OrderStatus, u \in Owners :
          Request("updateStatus", "none",
                  [NoArgs EXCEPT !.id = id, !.status = status],
                  updateStatus(id, status, u))
    \/ \E dto \in CreateProductDtos, u \in Owners, key \in Keys :
          Request("productCreate", key, [NoArgs EXCEPT !.dto = dto],
                  productCreate(dto, "r1", u, key))
    \/ \E id \in ProductIds, dto \in UpdateProductDtos, u \in Owners,
          key \in Keys :
          Request("productUpdate", key,
                  [NoArgs EXCEPT !.id = id, !.dto = dto],
                  productUpdate(id, dto, u, key))
    \/ IdemExpire

Spec == Init /\ [][Next]_vars

(***************************************************************************)
(* Claims about the order and product use cases.                           *)
(***************************************************************************)
\* Every request that asks for a status of order id, with the status it
\* asks for and what its handler gives in the current state.
OrderStatusRequests(id) ==
    {[status |-> "ACCEPTED", r |-> acceptOrder(id, u, key)]
        : u \in Owners, key \in Keys}
    \cup {[status |-> "REJECTED", r |-> rejectOrder(id, reason, u, key)]
        : reason \in UseCaseReasons, u \in Owners, key \in Keys}
    \cup {[status |-> "CANCELLED", r |-> cancelOrder(id, reason, u, key)]
        : reason \in UseCaseReasons, u \in Owners, key \in Keys}
    \cup {[status |-> "REPORTED", r |-> reportOrder(id, reason, u, key)]
        : reason \in UseCaseReasons, u \in Owners, key \in Keys}
    \cup {[status |-> st, r |-> updateOrderStatus(id, st, u)]
        : st \in OrderStatus, u \in Owners}
    \cup {[status |-> st, r |-> updateStatus(id, st, u)]
        : st \in OrderStatus, u \in Owners}

\* C2: in every reachable state, for every stored order and every request
\* of acceptOrder, rejectOrder, cancelOrder, reportOrder, updateOrderStatus
\* and OrderUseCase.updateStatus: if the request changes the stored status,
\* the change is an edge of the transition table; if the status asked for
\* is not allowed from the current status, the stored orders are left as
\* they are and the request is rejected (an idempotent replay or no-op
\* apart, which returns without writing an order).
C2_OnlyTableEdges ==
    \A id \in OrderIds :
       orders[id] # NoRow =>
          \A q \in OrderStatusRequests(id) :
             /\ q.r.orders[id].status # orders[id].status
                   => includes(VALID_TRANSITIONS[orders[id].status],
                               q.r.orders[id].status)
             /\ ~includes(VALID_TRANSITIONS[orders[id].status], q.status)
                   => /\ q.r.orders = orders
                      /\ q.r.res.outcome = "ok"
                            => q.r.res.path \in {"replayed", "already"}

\* The body of a response as the HTTP layer writes it.
responseText(body) == stringify([statusCode |-> 200, body |-> body]).text.body

OrdersWithKey(key) ==
    {id \in OrderIds : orders[id] # NoRow /\ orders[id].idempotencyKey = key}

CreatedEntriesWithKey(key) ==
    {i \in 1..Len(audit) :
        /\ audit[i].action = "ORDER_CREATED"
        /\ audit[i].newState.idempotencyKey = key}

\* C6: whenever the last request that wrote anything was an order creation,
\* a second creation with the same key, customer and payload (at once, or
\* after the cache record has expired) returns a response that reads the
\* same as the first, writes no order and no audit entry, and there is
\* exactly one order with that key and exactly one ORDER_CREATED entry
\* for it.
C6_CreateTwice ==
    last.op = "orderCreate" =>
       LET first == last.res
           again == orderCreate(last.args.dto, first.body.customerId, last.key)
       IN /\ again.res.outcome = "ok"
          /\ responseText(again.res.body) = responseText(first.body)
          /\ again.orders = orders
          /\ again.audit = audit
          /\ Cardinality(OrdersWithKey(last.key)) = 1
          /\ Cardinality(CreatedEntriesWithKey(last.key)) = 1

\* An order was created under k1, and the same request sent again is
\* answered from the cache with the body in its stored form.
C6_Witness ==
    /\ last.op = "orderCreate"
    /\ last.key = "k1"
    /\ idem["k1"] # NoRecord
    /\ LET again == orderCreate(last.args.dto, "c1", "k1") IN
          /\ again.res.path = "replayed"
          /\ again.res.body # last.res.body
          /\ again.res.body.id = last.res.body.id

\* Every request to a guarded operation under key, with the reason it
\* carries (Undefined where the operation takes none) and what its handler
\* gives in the current state.
GuardedRequests(key) ==
    {[op |-> "orderCreate", reason |-> Undefined,
      r |-> orderCreate(dto, c, key)]
        : dto \in CreateOrderDtos, c \in Customers}
    \cup {[op |-> "acceptOrder", reason |-> Undefined,
           r |-> acceptOrder(id, u, key)]
        : id \in OrderIds, u \in Owners}
    \cup {[op |-> "rejectOrder", reason |-> reason,
           r |-> rejectOrder(id, reason, u, key)]
        : id \in OrderIds, reason \in UseCaseReasons, u \in Owners}
    \cup {[op |-> "cancelOrder", reason |-> reason,
           r |-> cancelOrder(id, reason, u, key)]
        : id \in OrderIds, reason \in UseCaseReasons, u \in Owners}
    \cup {[op |-> "reportOrder", reason |-> reason,
           r |-> reportOrder(id, reason, u, key)]
        : id \in OrderIds, reason \in UseCaseReasons, u \in Owners}
    \cup {[op |-> "productCreate", reason |-> Undefined,
           r |-> productCreate(dto, "r1", u, key)]
        : dto \in CreateProductDtos, u \in Owners}
    \cup {[op |-> "productUpdate", reason |-> Undefined,
           r |-> productUpdate(id, dto, u, key)]
        : id \in ProductIds, dto \in UpdateProductDtos, u \in Owners}

\* The request is answered with the body stored under key and writes
\* nothing.
ReplaysStored(q, key) ==
    /\ q.r.res.outcome = "ok"
    /\ q.r.res.body = idem[key].text.body
    /\ q.r.orders = orders
    /\ q.r.products = products
    /\ q.r.idem = idem
    /\ q.r.audit = audit

\* C7 as stated: in every reachable state, every request to a guarded
\* operation under a key that has a record returns the stored body, writes
\* to no table and appends no audit entry.
C7_ReplayAlways ==
    \A key \in Keys :
       idem[key] # NoRecord =>
          \A q \in GuardedRequests(key) : ReplaysStored(q, key)

\* C7 as amended: the same, except that rejectOrder and reportOrder called
\* with a blank reason fail with the missing-reason error before the guard
\* is consulted; they too write to no table and append no audit entry.
C7_ReplayUnlessBlankReason ==
    \A key \in Keys :
       idem[key] # NoRecord =>
          \A q \in GuardedRequests(key) :
             IF q.op \in {"rejectOrder", "reportOrder"} /\ IsBlank(q.reason)
             THEN /\ q.r.res.outcome = "MissingReason"
                  /\ q.r.res.body = NoRow
                  /\ q.r.orders = orders
                  /\ q.r.products = products
                  /\ q.r.idem = idem
                  /\ q.r.audit = audit
             ELSE ReplaysStored(q, key)

\* The order created under k1 has since been accepted under k2: a request
\* under k1 is answered with the stored body, which still says PENDING,
\* and a rejectOrder under k1 with a blank reason is refused.
C7_Witness ==
    /\ last.op = "acceptOrder"
    /\ orders["o1"] # NoRow
    /\ orders["o1"].status = "ACCEPTED"
    /\ idem["k1"] # NoRecord
    /\ idem["k1"].text.body.status = "PENDING"
    /\ acceptOrder("o1", "u1", "k1").res.path = "replayed"
    /\ acceptOrder("o1", "u1", "k1").res.body.status = "PENDING"
    /\ rejectOrder("o1", <<" ">>, "u1", "k1").res.outcome = "MissingReason"

(***************************************************************************)
(* Subscriptions and payment validation (SubscriptionUseCase and           *)
(* AdminUseCase, application/use-cases/admin/admin.use-case.ts).           *)
(***************************************************************************)
\* endDate.setMonth(endDate.getMonth() + 1): one month, in clock ticks.
MonthTicks == 2
\* Entries the audit log of SpecAdmin holds at most.
MaxAdminAudit == 4

AdminSubscriptionIds == {"s1", "s2"}
AdminIds == {"a1"}
CorrelationIds == {Undefined, <<"x1">>}

\* Fault injection: an isActive that is false once endDate has passed.
subscriptionIsActiveWhileValid(sub) ==
    /\ sub.status = "ACTIVE"
    /\ sub.endDate \notin {NullDate, UndefinedDate}
    /\ sub.endDate.date > now

\* Subscription.isActive
subscriptionIsActive(sub) == sub.status = "ACTIVE"

\* PrismaSubscriptionRepository.findById
subscriptionFindById(id) == IF id \in DOMAIN subs THEN subs[id] ELSE NoRow

\* SubscriptionUseCase.toResponseDto (daysRemaining left out)
toSubscriptionResponseDto(sub) ==
    [id |-> sub.id, status |-> sub.status, startDate |-> sub.startDate,
     endDate |-> sub.endDate, monthlyAmount |-> sub.monthlyAmount,
     restaurantId |-> sub.restaurantId,
     isValid |-> subscriptionIsValid(sub, now),
     createdAt |-> sub.createdAt, updatedAt |-> sub.updatedAt]

\* The method throws: nothing is written.
AdminThrow(e) ==
    [res |-> [outcome |-> e, body |-> NoRow],
     subs |-> subs, restaurants |-> restaurants, audit |-> audit]

\* The method returns body and leaves the tables s and r and the log a.
AdminReturn(body, s, r, a) ==
    [res |-> [outcome |-> "ok", body |-> body],
     subs |-> s, restaurants |-> r, audit |-> a]

\* SubscriptionUseCase.create
subscriptionCreate(restaurantId, ownerId, correlationId) ==
    LET restaurant == restaurantFindById(restaurantId)
        existingSubscription == findActiveByRestaurantId(restaurantId)
        free == {id \in DOMAIN subs : subs[id] = NoRow}
        id == CHOOSE i \in free : TRUE
        subscription ==
            SubscriptionProps(id, "PENDING", restaurantId, NullDate,
                              NullDate, now)
    IN
    IF restaurant = NoRow THEN AdminThrow("NotFound")
    ELSE IF restaurant.ownerId # ownerId THEN AdminThrow("Forbidden")
    ELSE IF existingSubscription # NoRow
            /\ subscriptionIsValid(existingSubscription, now)
    THEN AdminThrow("BadRequest")
    ELSE IF free = {} THEN AdminThrow("TableFull")
    ELSE AdminReturn(toSubscriptionResponseDto(subscription),
                     [subs EXCEPT ![id] = subscription], restaurants,
                     auditCreate(audit,
                         [action |-> "SUBSCRIPTION_CREATED",
                          entityType |-> "Subscription", entityId |-> id,
                          previousState |-> NoRow, newState |-> subscription,
                          correlationId |->
                              OrElse(correlationId, uuidv4(audit)),
                          userId |-> ownerId]))

\* SubscriptionUseCase.activateSubscription
activateSubscription(subscriptionId, adminId, correlationId) ==
    LET subscription == subscriptionFindById(subscriptionId)
        startDate == Date(now)
        endDate == Date(now + MonthTicks)
        \* subscriptionRepository.activate(id, startDate, endDate)
        activatedSubscription ==
            [subscription EXCEPT !.status = "ACTIVE",
                                 !.startDate = startDate,
                                 !.endDate = endDate,
                                 !.updatedAt = Date(now)]
        restaurant == restaurantFindById(subscription.restaurantId)
        \* restaurantRepository.updateStatus(restaurant.id, ACTIVE)
        restaurants1 ==
            IF restaurant = NoRow THEN restaurants
            ELSE [restaurants EXCEPT
                     ![restaurant.id] = [restaurant EXCEPT
                                            !.status = "ACTIVE",
                                            !.updatedAt = Date(now)]]
        audit1 ==
            IF restaurant = NoRow THEN audit
            ELSE auditCreate(audit,
                     [action |-> "RESTAURANT_ACTIVATED",
                      entityType |-> "Restaurant",
                      entityId |-> restaurant.id,
                      previousState |-> restaurant,
                      newState |-> [restaurant EXCEPT !.status = "ACTIVE"],
                      correlationId |->
                          OrElse(correlationId, uuidv4(audit)),
                      userId |-> adminId])
        audit2 ==
            auditCreate(audit1,
                [action |-> "SUBSCRIPTION_ACTIVATED",
                 entityType |-> "Subscription",
                 entityId |-> subscriptionId,
                 previousState |-> subscription,
                 newState |-> activatedSubscription,
                 correlationId |-> OrElse(correlationId, uuidv4(audit1)),
                 userId |-> adminId])
    IN
    IF subscription = NoRow THEN AdminThrow("NotFound")
    ELSE IF subscriptionIsActive(subscription) THEN AdminThrow("BadRequest")
    ELSE AdminReturn(toSubscriptionResponseDto(activatedSubscription),
                     [subs EXCEPT ![subscriptionId] = activatedSubscription],
                     restaurants1, audit2)

\* AdminUseCase.validatePayment.  The idempotency key is only written to
\* the metadata of the audit entry.
validatePayment(subscriptionId, adminId, idempotencyKey, correlationId) ==
    LET act == activateSubscription(subscriptionId, adminId,
                                    OrElse(correlationId, uuidv4(audit)))
        subscription == act.res.body
        \* restaurantRepository.findById(subscription.restaurantId)
        row == act.restaurants[subscription.restaurantId]
        found == row # NoRow /\ row.deletedAt = NullDate
    IN
    IF act.res.outcome # "ok" THEN act
    ELSE AdminReturn(
             [subscription |-> [id |-> subscription.id,
                                status |-> subscription.status],
              restaurant |-> [id |-> IF found THEN row.id ELSE "",
                              status |-> IF found THEN row.status ELSE ""]],
             act.subs, act.restaurants,
             auditCreate(act.audit,
                 [action |-> "PAYMENT_VALIDATED",
                  entityType |-> "Subscription",
                  entityId |-> subscriptionId,
                  previousState |-> NoRow, newState |-> NoRow,
                  correlationId |->
                      OrElse(correlationId, uuidv4(act.audit)),
                  userId |-> adminId,
                  metadata |-> [idempotencyKey |-> idempotencyKey,
                                action |-> "PAYMENT_VALIDATION"]]))

\* SubscriptionUseCase.cancelSubscription
\* Fault injection: a cancel that also suspends the restaurant.
cancelSubscriptionSuspends(subscriptionId, userId, correlationId) ==
    LET subscription == subscriptionFindById(subscriptionId)
        cancelledSubscription ==
            [subscription EXCEPT !.status = "CANCELLED",
                                 !.updatedAt = Date(now)]
    IN
    IF subscription = NoRow THEN AdminThrow("NotFound")
    ELSE AdminReturn(toSubscriptionResponseDto(cancelledSubscription),
                     [subs EXCEPT ![subscriptionId] = cancelledSubscription],
                     [restaurants EXCEPT
                         ![subscription.restaurantId].status = "SUSPENDED"],
                     auditCreate(audit,
                         [action |-> "SUBSCRIPTION_CANCELLED",
                          entityType |-> "Subscription",
                          entityId |-> subscriptionId,
                          previousState |-> subscription,
                          newState |-> cancelledSubscription,
                          correlationId |->
                              OrElse(correlationId, uuidv4(audit)),
                          userId |-> userId]))

cancelSubscription(subscriptionId, userId, correlationId) ==
    LET subscription == subscriptionFindById(subscriptionId)
        \* subscriptionRepository.cancel(id)
        cancelledSubscription ==
            [subscription EXCEPT !.status = "CANCELLED",
                                 !.updatedAt = Date(now)]
    IN
    IF subscription = NoRow THEN AdminThrow("NotFound")
    ELSE AdminReturn(toSubscriptionResponseDto(cancelledSubscription),
                     [subs EXCEPT ![subscriptionId] = cancelledSubscription],
                     restaurants,
                     auditCreate(audit,
                         [action |-> "SUBSCRIPTION_CANCELLED",
                          entityType |-> "Subscription",
                          entityId |-> subscriptionId,
                          previousState |-> subscription,
                          newState |-> cancelledSubscription,
                          correlationId |->
                              OrElse(correlationId, uuidv4(audit)),
                          userId |-> userId]))

\* AdminUseCase.suspendRestaurant
suspendRestaurant(restaurantId, adminId, reason, correlationId) ==
    LET restaurant == restaurantFindById(restaurantId)
        \* restaurantRepository.updateStatus(restaurantId, SUSPENDED)
        suspended == [restaurant EXCEPT !.status = "SUSPENDED",
                                        !.updatedAt = Date(now)]
    IN
    IF restaurant = NoRow THEN AdminThrow("NotFound")
    ELSE AdminReturn([id |-> suspended.id, status |-> suspended.status],
                     subs, [restaurants EXCEPT ![restaurantId] = suspended],
                     auditCreate(audit,
                         [action |-> "RESTAURANT_SUSPENDED",
                          entityType |-> "Restaurant",
                          entityId |-> restaurantId,
                          previousState |-> restaurant,
                          newState |-> suspended,
                          correlationId |->
                              OrElse(correlationId, uuidv4(audit)),
                          userId |-> adminId,
                          metadata |-> [reason |-> reason,
                                        manualSuspension |-> TRUE,
                                        suspendedBy |-> adminId]]))

(***************************************************************************)
(* The subscription expiration job (SubscriptionExpirationProcessor,       *)
(* infrastructure/queue).  A run is the record of the locals of one call   *)
(* of process(job); every await of the loop body is one step.              *)
(***************************************************************************)
\* All orders in which the rows with the ids of S can come back from a
\* query without orderBy.
SeqsOf(S) ==
    {q \in [1..Cardinality(S) -> S] :
        \A a, b \in 1..Cardinality(S) : q[a] = q[b] => a = b}

\* Fault injection: a query that selects on endDate alone.
findExpiredSubscriptionsAnyStatus(s, t) ==
    {id \in DOMAIN s :
        /\ s[id] # NoRow
        /\ s[id].endDate # NullDate
        /\ s[id].endDate.date <= t}

\* PrismaSubscriptionRepository.findExpiredSubscriptions: the ids of the
\* rows with status ACTIVE and endDate <= now.
findExpiredSubscriptions(s, t) ==
    {id \in DOMAIN s :
        /\ s[id] # NoRow
        /\ s[id].status = "ACTIVE"
        /\ s[id].endDate # NullDate
        /\ s[id].endDate.date <= t}

\* process(job) up to the for loop: the rows selected, in the order the
\* query gave them, and an empty result.
newRun(jobId, correlationId, selected, t) ==
    [pc |-> IF selected = <<>> THEN "done" ELSE "markExpired",
     jobId |-> jobId, triggeredAt |-> toISOString(Date(t)),
     correlationId |-> correlationId,
     selected |-> selected, i |-> 1,
     expiredSubscription |-> NoRow, restaurant |-> NoRow,
     suspendedRestaurant |-> NoRow,
     result |-> [processedCount |-> 0, expiredSubscriptions |-> <<>>,
                 suspendedRestaurants |-> <<>>, errors |-> <<>>]]

\* The loop moves to the next selected subscription, or ends.
nextSubscription(run) ==
    [run EXCEPT !.i = run.i + 1,
                !.pc = IF run.i + 1 > Len(run.selected)
                       THEN "done" ELSE "markExpired",
                !.expiredSubscription = NoRow,
                !.restaurant = NoRow,
                !.suspendedRestaurant = NoRow]

\* Fault injection: an update that is not idempotent: writing the status
\* the row has already sets it back to ACTIVE.
restaurantUpdateStatusToggles(row, status, t) ==
    [row EXCEPT !.status = IF row.status = status THEN "ACTIVE" ELSE status,
                !.updatedAt = Date(t)]

\* PrismaRestaurantRepository.updateStatus on the row of the id
restaurantUpdateStatus(row, status, t) ==
    [row EXCEPT !.status = status, !.updatedAt = Date(t)]

\* One step of the loop body of process(job) on the tables s and r and
\* the log a at time t: the statement at run.pc, up to its await.
sweepStep(run, s, r, a, t) ==
    LET subscription == run.selected[run.i]
        row == r[subscription.restaurantId]
        restaurant ==
            IF subscription.restaurantId \in DOMAIN r /\ row # NoRow
               /\ row.deletedAt = NullDate
            THEN row ELSE NoRow
    IN
    CASE run.pc = "markExpired" ->
            LET expired == [s[subscription.id] EXCEPT
                               !.status = "EXPIRED", !.updatedAt = Date(t)]
            IN [run |-> [run EXCEPT
                    !.pc = "auditExpired",
                    !.expiredSubscription = expired,
                    !.result.processedCount = @ + 1,
                    !.result.expiredSubscriptions =
                        Append(@, subscription.id)],
                subs |-> [s EXCEPT ![subscription.id] = expired],
                restaurants |-> r, audit |-> a]
      [] run.pc = "auditExpired" ->
            [run |-> [run EXCEPT !.pc = "findRestaurant"],
             subs |-> s, restaurants |-> r,
             audit |-> auditCreate(a,
                 [action |-> "SUBSCRIPTION_EXPIRED",
                  entityType |-> "Subscription",
                  entityId |-> subscription.id,
                  previousState |-> subscription,
                  newState |-> run.expiredSubscription,
                  correlationId |-> run.correlationId,
                  metadata |-> [jobId |-> run.jobId,
                                triggeredAt |-> run.triggeredAt,
                                reason |-> "AUTOMATIC_EXPIRATION"]])]
      [] run.pc = "findRestaurant" ->
            [run |-> IF restaurant # NoRow /\ isActive(restaurant)
                     THEN [run EXCEPT !.pc = "suspend",
                                      !.restaurant = restaurant]
                     ELSE nextSubscription(run),
             subs |-> s, restaurants |-> r, audit |-> a]
      [] run.pc = "suspend" ->
            LET suspended == restaurantUpdateStatus(r[run.restaurant.id],
                                                    "SUSPENDED", t)
            IN [run |-> [run EXCEPT
                    !.pc = "auditSuspended",
                    !.suspendedRestaurant = suspended,
                    !.result.suspendedRestaurants =
                        Append(@, run.restaurant.id)],
                subs |-> s,
                restaurants |-> [r EXCEPT ![run.restaurant.id] = suspended],
                audit |-> a]
      [] run.pc = "auditSuspended" ->
            [run |-> nextSubscription(run),
             subs |-> s, restaurants |-> r,
             audit |-> auditCreate(a,
                 [action |-> "RESTAURANT_SUSPENDED",
                  entityType |-> "Restaurant",
                  entityId |-> run.restaurant.id,
                  previousState |-> run.restaurant,
                  newState |-> run.suspendedRestaurant,
                  correlationId |-> run.correlationId,
                  metadata |-> [jobId |-> run.jobId,
                                reason |-> "SUBSCRIPTION_EXPIRED",
                                subscriptionId |-> subscription.id,
                                automaticSuspension |-> TRUE]])]

\* Fault injection: a catch that records the error and leaves the loop.
sweepCatchAborts(run) ==
    [run EXCEPT !.pc = "done",
                !.result.errors =
                    Append(@, [subscription |-> run.selected[run.i].id,
                               at |-> run.pc])]

\* The await at run.pc throws: the catch of the loop body records the
\* subscription's id and the loop goes on.
sweepCatch(run) ==
    LET counted == IF run.pc = "markExpired"
                   THEN [run EXCEPT !.result.processedCount = @ + 1]
                   ELSE run
    IN nextSubscription(
           [counted EXCEPT !.result.errors =
               Append(@, [subscription |-> run.selected[run.i].id,
                          at |-> run.pc])])

\* process(job) from run to its return, no other request in between and
\* no call throwing.
RECURSIVE process(_, _, _, _, _)
process(run, s, r, a, t) ==
    IF run.pc = "done"
    THEN [run |-> run, subs |-> s, restaurants |-> r, audit |-> a]
    ELSE LET n == sweepStep(run, s, r, a, t)
         IN process(n.run, n.subs, n.restaurants, n.audit, t)

(***************************************************************************)
(* Customer-facing reads.                                                  *)
(***************************************************************************)
\* A requester: a signed-in user, or nobody (requesterId undefined).
Requesters == Owners \cup {"anonymous"}

\* PrismaRestaurantRepository.findAllVisible
findAllVisible ==
    {restaurants[id] : id \in
        {i \in DOMAIN restaurants :
            /\ restaurants[i] # NoRow
            /\ restaurants[i].status = "ACTIVE"
            /\ restaurants[i].deletedAt = NullDate
            /\ \E s \in DOMAIN subs :
                  /\ subs[s] # NoRow
                  /\ subs[s].restaurantId = i
                  /\ subs[s].status = "ACTIVE"
                  /\ subs[s].endDate # NullDate
                  /\ subs[s].endDate.date > now}}

\* RestaurantUseCase.findById
restaurantUseCaseFindById(id, requesterId) ==
    LET restaurant == restaurantFindById(id) IN
    IF restaurant = NoRow THEN [outcome |-> "NotFound", body |-> NoRow]
    ELSE IF requesterId # restaurant.ownerId /\ ~isVisible(restaurant)
    THEN [outcome |-> "NotFound", body |-> NoRow]
    ELSE [outcome |-> "ok",
          body |-> [id |-> restaurant.id, status |-> restaurant.status,
                    ownerId |-> restaurant.ownerId]]

\* The two checks ProductUseCase makes before a public read: the restaurant
\* is active and its subscription is valid.
restaurantServesPublic(restaurantId) ==
    LET restaurant == restaurantFindById(restaurantId)
        subscription == findActiveByRestaurantId(restaurantId)
    IN /\ restaurant # NoRow
       /\ isActive(restaurant)
       /\ subscription # NoRow
       /\ subscriptionIsValid(subscription, now)

\* ProductUseCase.findById
productUseCaseFindById(productId, requesterId, isPublic) ==
    LET product == productFindById(productId)
        restaurant == restaurantFindById(product.restaurantId)
    IN
    IF product = NoRow THEN [outcome |-> "NotFound", body |-> NoRow]
    ELSE IF isPublic /\ ~productIsVisible(product)
    THEN [outcome |-> "NotFound", body |-> NoRow]
    ELSE IF isPublic /\ ~restaurantServesPublic(product.restaurantId)
    THEN [outcome |-> "NotFound", body |-> NoRow]
    ELSE IF ~isPublic /\ requesterId # "anonymous"
            /\ (restaurant = NoRow \/ restaurant.ownerId # requesterId)
    THEN [outcome |-> "Forbidden", body |-> NoRow]
    ELSE [outcome |-> "ok", body |-> toProductResponseDto(product)]

\* ProductUseCase.findVisibleByRestaurantId
findVisibleByRestaurantId(restaurantId) ==
    IF ~restaurantServesPublic(restaurantId) THEN {}
    ELSE {toProductResponseDto(products[p]) : p \in
             {i \in DOMAIN products :
                 /\ products[i] # NoRow
                 /\ products[i].restaurantId = restaurantId
                 /\ products[i].status = "ACTIVE"
                 /\ products[i].deletedAt = NullDate}}

\* ProductUseCase.findFeaturedByRestaurantId
findFeaturedByRestaurantId(restaurantId) ==
    IF ~restaurantServesPublic(restaurantId) THEN {}
    ELSE {toProductResponseDto(products[p]) : p \in
             {i \in DOMAIN products :
                 /\ products[i] # NoRow
                 /\ products[i].restaurantId = restaurantId
                 /\ products[i].status = "ACTIVE"
                 /\ products[i].isFeatured
                 /\ products[i].deletedAt = NullDate}}

(***************************************************************************)
(* SpecAdmin: a restaurant registered by its owner, its subscriptions,     *)
(* the admin's payment validation and suspension, and the clock.           *)
(***************************************************************************)
AdminNoArgs == [id |-> "none", user |-> "none", correlationId |-> Undefined]

AdminInit ==
    /\ now = 0
    /\ IdleEntity
    /\ IdleRent
    /\ IdleSent
    /\ IdleSweep
    /\ IdleCalls
    /\ restaurants =
          [id \in RestaurantIds |->
              RestaurantProps(id, "PENDING", "u1", NullDate, 0)]
    /\ subs = [id \in AdminSubscriptionIds |-> NoRow]
    /\ orders = [id \in OrderIds |-> NoRow]
    /\ \E featured \in BOOLEAN :
          products =
             [id \in ProductIds |->
                 [id |-> id, price |-> 25, quantity |-> 3,
                  status |-> "ACTIVE", isFeatured |-> featured,
                  deletedAt |-> NullDate, restaurantId |-> "r1",
                  createdAt |-> Date(0), updatedAt |-> Date(0)]]
    /\ idem = [k \in Keys |-> NoRecord]
    /\ audit = <<>>
    /\ last = [op |-> "none", key |-> "none", args |-> AdminNoArgs,
               res |-> [outcome |-> "none", body |-> NoRow]]

\* One request runs to its end: r is what the method gives.  last keeps
\* the last request that returned.
AdminRequest(op, key, args, r) ==
    /\ r.res.outcome # "TableFull"
    /\ Len(r.audit) <= MaxAdminAudit
    /\ subs' = r.subs
    /\ restaurants' = r.restaurants
    /\ audit' = r.audit
    /\ last' = IF r.res.outcome = "ok"
               THEN [op |-> op, key |-> key, args |-> args, res |-> r.res]
               ELSE last
    /\ UNCHANGED <<calls, now, entityVars, rentVars, sentVars, sweepVars,
                      orders, products, idem>>

\* Every request carries the correlation id <<"x1">> of its HTTP request;
\* validatePayment is also called without one.
AdminNext ==
    \/ \E u \in Owners :
          AdminRequest("subscriptionCreate", "none",
              [AdminNoArgs EXCEPT !.id = "r1", !.user = u,
                                  !.correlationId = <<"x1">>],
              subscriptionCreate("r1", u, <<"x1">>))
    \/ \E id \in AdminSubscriptionIds, a \in AdminIds, key \in Keys,
          c \in CorrelationIds :
          AdminRequest("validatePayment", key,
              [AdminNoArgs EXCEPT !.id = id, !.user = a,
                                  !.correlationId = c],
              validatePayment(id, a, key, c))
    \/ \E id \in AdminSubscriptionIds, u \in Owners :
          AdminRequest("cancelSubscription", "none",
              [AdminNoArgs EXCEPT !.id = id, !.user = u,
                                  !.correlationId = <<"x1">>],
              cancelSubscription(id, u, <<"x1">>))
    \/ \E a \in AdminIds :
          AdminRequest("suspendRestaurant", "none",
              [AdminNoArgs EXCEPT !.id = "r1", !.user = a,
                                  !.correlationId = <<"x1">>],
              suspendRestaurant("r1", a, <<"a">>, <<"x1">>))
    \/ Tick /\ UNCHANGED <<calls, entityVars, rentVars, sentVars, sweepVars,
                         storeVars>>

SpecAdmin == AdminInit /\ [][AdminNext]_vars

(***************************************************************************)
(* Claims about payment validation and the customer-facing reads.          *)
(***************************************************************************)
\* C8: payment validation is idempotent under its key.  After a
\* validatePayment that returned, the same call with the same key returns
\* the result of the first call and writes nothing: the subscription and
\* the restaurant are activated once and the audit entries written once.
C8_ValidateTwice ==
    last.op = "validatePayment" =>
        LET again == validatePayment(last.args.id, last.args.user, last.key,
                                     last.args.correlationId)
        IN /\ again.res = last.res
           /\ again.subs = subs
           /\ again.restaurants = restaurants
           /\ again.audit = audit

\* The restaurant is ACTIVE, not soft-deleted, and one of its subscriptions
\* is ACTIVE with endDate > now.
Entitled(r) ==
    /\ r.status = "ACTIVE"
    /\ r.deletedAt = NullDate
    /\ \E s \in DOMAIN subs :
          /\ subs[s] # NoRow
          /\ subs[s].restaurantId = r.id
          /\ subs[s].status = "ACTIVE"
          /\ subs[s].endDate # NullDate
          /\ subs[s].endDate.date > now

\* C10: no customer-facing read (restaurant list, restaurant detail for a
\* requester who is not the owner, public product detail, visible and
\* featured product lists) exposes a restaurant, or a product of it, that
\* is not ACTIVE, is soft-deleted, or has no ACTIVE subscription with
\* endDate > now.
C10_ReadsRequireSubscription ==
    \A rid \in DOMAIN restaurants :
       (restaurants[rid] # NoRow /\ ~Entitled(restaurants[rid])) =>
          /\ \A r \in findAllVisible : r.id # rid
          /\ \A u \in Requesters \ {restaurants[rid].ownerId} :
                restaurantUseCaseFindById(rid, u).outcome # "ok"
          /\ \A p \in DOMAIN products :
                (products[p] # NoRow /\ products[p].restaurantId = rid) =>
                   productUseCaseFindById(p, "anonymous", TRUE).outcome
                      # "ok"
          /\ findVisibleByRestaurantId(rid) = {}
          /\ findFeaturedByRestaurantId(rid) = {}

\* C20: activateSubscription on a subscription that is ACTIVE fails and
\* changes neither the subscription, the restaurant nor the audit log; on
\* a subscription that is not ACTIVE it sets the subscription to ACTIVE
\* with startDate = now and endDate one month later, so that it is valid
\* at once, sets the restaurant of the subscription to ACTIVE, and changes
\* no other subscription.
C20_Activate ==
    \A id \in DOMAIN subs, c \in CorrelationIds :
       subs[id] # NoRow =>
          LET r == activateSubscription(id, "a1", c) IN
          IF subs[id].status = "ACTIVE"
          THEN /\ r.res.outcome = "BadRequest"
               /\ r.subs = subs
               /\ r.restaurants = restaurants
               /\ r.audit = audit
          ELSE /\ r.res.outcome = "ok"
               /\ r.subs[id].status = "ACTIVE"
               /\ r.subs[id].startDate = Date(now)
               /\ r.subs[id].endDate = Date(now + MonthTicks)
               /\ subscriptionIsValid(r.subs[id], now)
               /\ r.restaurants[subs[id].restaurantId].status = "ACTIVE"
               /\ \A other \in DOMAIN subs \ {id} : r.subs[other] = subs[other]

\* A payment has just been validated: the subscription is ACTIVE from now
\* for one month, the restaurant went from PENDING to ACTIVE, and
\* activating the subscription again is refused.
C20_Witness ==
    /\ last.op = "validatePayment"
    /\ restaurants["r1"].status = "ACTIVE"
    /\ \E i \in DOMAIN audit :
          /\ audit[i].action = "RESTAURANT_ACTIVATED"
          /\ audit[i].previousState.status = "PENDING"
    /\ \E id \in DOMAIN subs :
          /\ subs[id] # NoRow
          /\ subs[id].status = "ACTIVE"
          /\ subs[id].startDate = Date(now)
          /\ subs[id].endDate = Date(now + MonthTicks)
          /\ activateSubscription(id, "a1", <<"x1">>).res.outcome
                = "BadRequest"

C22_CancelByOwnerOrAdmin ==
    \A id \in DOMAIN subs, u \in Owners \cup AdminIds :
       subs[id] # NoRow =>
          LET r == cancelSubscription(id, u, <<"x1">>) IN
          (/\ u \notin AdminIds
           /\ u # restaurants[subs[id].restaurantId].ownerId)
          => /\ r.res.outcome = "Forbidden"
             /\ r.subs = subs
             /\ r.audit = audit

\* C26: in every reachable state, a request to a guarded operation that
\* fails leaves the idempotency cache, the tables and the audit log as they
\* were; unless it failed on its reason before the guard was asked, the
\* key has no record afterwards, so the guard of a later request with the
\* key finds nothing and the operation runs again.
C26_FailureStoresNothing ==
    \A key \in Keys :
       \A q \in GuardedRequests(key) :
          q.r.res.outcome # "ok"
          => /\ q.r.idem = idem
             /\ q.r.orders = orders
             /\ q.r.products = products
             /\ q.r.audit = audit
             /\ q.r.res.outcome # "MissingReason"
                => q.r.idem[key] = NoRecord

\* An order that is REJECTED: cancelling it under a key without a record
\* fails as an invalid transition, and so does every other failure the
\* claim lists for some request under that key.
C26_Witness ==
    \E key \in Keys, id \in OrderIds :
       /\ idem[key] = NoRecord
       /\ orders[id] # NoRow
       /\ orders[id].status = "REJECTED"
       /\ cancelOrder(id, <<"a">>, "u1", key).res.outcome
             = "InvalidTransition"
       /\ \A e \in {"NotFound", "Forbidden", "InvalidTransition",
                    "MissingReason"} :
             \E q \in GuardedRequests(key) : q.r.res.outcome = e

\* C28: in every reachable state the quantity of a product is not
\* negative; Product.updateQuantity throws on a negative quantity, and with
\* quantity 0 it gives status OUT_OF_STOCK, or INACTIVE if the product was
\* INACTIVE; ProductUseCase.update with quantity 0 and no status of its
\* own leaves the product with that same status.
C28_ZeroQuantityOutOfStock ==
    \A id \in ProductIds :
       products[id] # NoRow =>
          LET policy == IF products[id].status = "INACTIVE" THEN "INACTIVE"
                        ELSE "OUT_OF_STOCK"
          IN
          /\ products[id].quantity >= 0
          /\ \A quantity \in {-1, 0, 1} :
                LET e == updateQuantity(products[id], quantity, now) IN
                /\ quantity < 0 => ~e.ok
                /\ quantity = 0 => /\ e.ok
                                   /\ e.order.quantity = 0
                                   /\ e.order.status = policy
          /\ \A dto \in UpdateProductDtos, u \in Owners, key \in Keys :
                LET r == productUpdate(id, dto, u, key) IN
                (dto.quantity = Some(0) /\ dto.status = None
                 /\ r.res.path = "done")
                => /\ r.products[id].quantity = 0
                   /\ r.products[id].status = policy

\* C29: a step of the order entity leaves id, items, totalAmount,
\* customerId, restaurantId, idempotencyKey, notes and createdAt as they
\* were, and changes a reason field only if it is the reason field of the
\* method that returned; the two repository writes applied to the order
\* leave the same fields, so amount and items stay those of creation.
C29_TransitionFrame ==
    [][LET fixed == {"id", "items", "totalAmount", "customerId",
                     "restaurantId", "idempotencyKey", "notes", "createdAt"}
           reasonOf == CASE entRes'.action = "reject" -> "rejectionReason"
                         [] entRes'.action = "cancel" -> "cancellationReason"
                         [] entRes'.action = "report" -> "reportReason"
                         [] OTHER -> "none"
           written ==
               {orderUpdateStatus(ent, "ACCEPTED"),
                updateOrderWithReason(ent,
                    [UpdateOrderStatusData("REJECTED") EXCEPT
                        !.rejectionReason = <<"a">>]),
                updateOrderWithReason(ent,
                    [UpdateOrderStatusData("CANCELLED") EXCEPT
                        !.cancellationReason = <<"a">>]),
                updateOrderWithReason(ent,
                    [UpdateOrderStatusData("REPORTED") EXCEPT
                        !.reportReason = <<"a">>])}
       IN
       /\ \A f \in fixed : ent'[f] = ent[f]
       /\ \A f \in {"rejectionReason", "cancellationReason", "reportReason"} :
             ent'[f] # ent[f] => entRes'.outcome = "ok" /\ f = reasonOf
       /\ ent' # ent => ent'.status = TargetOf(entRes'.action)
       /\ ent' # ent => \A row \in written : \A f \in fixed : row[f] = ent[f]]_vars

\* An order that was accepted, confirmed and then cancelled with a reason
\* at a later time than it was created.
C29_Witness ==
    /\ Len(entHist) >= 4
    /\ ent.status = "CANCELLED"
    /\ ent.cancellationReason = <<"a">>
    /\ ent.updatedAt # ent.createdAt
    /\ ent.totalAmount = 50
    /\ ent.items # <<>>

(***************************************************************************)
(* SpecSubscriptionEntity: one Subscription value and the methods applied  *)
(* to it (domain/entities, Subscription).                                  *)
(***************************************************************************)
SubscriptionStatus == {"PENDING", "ACTIVE", "EXPIRED", "CANCELLED"}

\* Subscription.activate
subscriptionActivate(sub, startDate, endDate, t) ==
    [sub EXCEPT !.status = "ACTIVE", !.startDate = startDate,
                !.endDate = endDate, !.updatedAt = Date(t)]

SentInit ==
    /\ now = 0
    /\ \E status \in SubscriptionStatus,
          endDate \in {NullDate, UndefinedDate}
                      \cup {Date(t) : t \in 0..MaxTime} :
          sent = SubscriptionProps("s1", status, "r1", NullDate, endDate, 0)
    /\ sentOp = "none"
    /\ IdleEntity
    /\ IdleRent
    /\ IdleSweep
    /\ IdleCalls
    /\ IdleStores

SentNext ==
    \/ /\ \/ \E endDate \in 0..MaxTime :
                /\ sent' = subscriptionActivate(sent, Date(now),
                                                Date(endDate), now)
                /\ sentOp' = "activate"
          \* Subscription.expire
          \/ /\ sent' = [sent EXCEPT !.status = "EXPIRED",
                                     !.updatedAt = Date(now)]
             /\ sentOp' = "expire"
          \* Subscription.cancel
          \/ /\ sent' = [sent EXCEPT !.status = "CANCELLED",
                                     !.updatedAt = Date(now)]
             /\ sentOp' = "cancel"
       /\ UNCHANGED <<calls, now, entityVars, rentVars, sweepVars, storeVars>>
    \/ Tick /\ UNCHANGED <<calls, entityVars, rentVars, sentVars, sweepVars,
                         storeVars>>

SpecSubscriptionEntity == SentInit /\ [][SentNext]_vars

\* The subscription has an end date (neither null nor undefined).
HasEndDate(sub) == sub.endDate \notin {NullDate, UndefinedDate}

\* C11: at every time, for every subscription: isValid() is true exactly
\* when the status is ACTIVE, endDate is set and endDate > now; an ACTIVE
\* subscription with endDate <= now (endDate = now included) is not valid
\* and isExpired() is true; with no endDate it is never valid, and
\* isExpired() is then true only when the status is EXPIRED.
C11_ValidAndExpired ==
    /\ subscriptionIsValid(sent, now)
          <=> /\ sent.status = "ACTIVE"
              /\ HasEndDate(sent)
              /\ \E t \in 0..MaxTime : sent.endDate = Date(t) /\ t > now
    /\ (sent.status = "ACTIVE" /\ HasEndDate(sent)
          /\ \E t \in 0..now : sent.endDate = Date(t))
          => (~subscriptionIsValid(sent, now)
              /\ subscriptionIsExpired(sent, now))
    /\ ~HasEndDate(sent)
          => (/\ ~subscriptionIsValid(sent, now)
              /\ subscriptionIsExpired(sent, now)
                    <=> sent.status = "EXPIRED")

\* An ACTIVE subscription, activated earlier, whose endDate is this
\* instant.
C11_Witness ==
    /\ sentOp = "activate"
    /\ sent.status = "ACTIVE"
    /\ now > 0
    /\ sent.endDate = Date(now)
    /\ sent.startDate.date < now
    /\ subscriptionIsExpired(sent, now)

(***************************************************************************)
(* SpecSweep: the expiration job on a restaurant with up to two            *)
(* subscriptions.  Two workers run jobs that overlap; any await of the     *)
(* loop body may throw.  The model explores overlapping runs in which no   *)
(* call throws, and throwing calls in runs that do not overlap.            *)
(***************************************************************************)
\* Repository calls that throw in one behaviour, at most.
MaxFaults == 1

\* A worker with no job.
IdleRun == [newRun("none", Undefined, <<>>, 0) EXCEPT !.pc = "idle"]

RunIds == {1, 2}

\* Restaurant r1 has been paid for once or twice: subscription s1, and s2
\* if there is one, created after s1, were activated at time -1 or 0 and
\* are ACTIVE for one month from then; a third subscription has room in
\* the table.  The restaurant is ACTIVE, or an admin has suspended it.
\* The log holds what is written from now on.
SweepInit ==
    /\ now = 0
    /\ IdleEntity
    /\ IdleRent
    /\ IdleSent
    /\ IdleCalls
    /\ \E a1 \in {-1, 0}, a2 \in {-1, 0}, second \in BOOLEAN :
          subs = [id \in AdminSubscriptionIds \cup {"s3"} |->
                     IF id = "s1"
                     THEN [SubscriptionProps(id, "ACTIVE", "r1", Date(a1),
                                             Date(a1 + MonthTicks), -2)
                             EXCEPT !.updatedAt = Date(a1)]
                     ELSE IF id = "s2" /\ second
                     THEN SubscriptionProps(id, "ACTIVE", "r1", Date(a2),
                                            Date(a2 + MonthTicks), -1)
                     ELSE NoRow]
    /\ \E status \in {"ACTIVE", "SUSPENDED"} :
          restaurants =
             [id \in RestaurantIds |->
                 RestaurantProps(id, status, "u1", NullDate, -1)]
    /\ orders = [id \in OrderIds |-> NoRow]
    /\ products = [id \in ProductIds |-> NoRow]
    /\ idem = [k \in Keys |-> NoRecord]
    /\ audit = <<>>
    /\ last = NoRow
    /\ runs = [rid \in RunIds |-> IdleRun]
    /\ faults = MaxFaults

\* ScheduledTasks.handleSubscriptionExpiration or
\* AdminUseCase.triggerExpirationCheck queues a job and a worker starts
\* process(job): the query runs.  uuidv4() gives the run a correlation id
\* no entry of another run carries.
SweepStart(rid) ==
    /\ runs[rid] = IdleRun
    /\ faults = MaxFaults \/ \A other \in RunIds : runs[other] = IdleRun
    /\ \E order \in SeqsOf(findExpiredSubscriptions(subs, now)) :
          runs' = [runs EXCEPT ![rid] =
                      newRun(<<"job", rid, Len(audit) + 1>>,
                             <<"uuid", rid, Len(audit) + 1>>,
                             [i \in DOMAIN order |-> subs[order[i]]], now)]
    \* last keeps the tables as the first of a group of overlapping runs
    \* found them
    /\ last' = IF \A other \in RunIds : runs[other] = IdleRun
               THEN [subs |-> subs, restaurants |-> restaurants]
               ELSE last
    /\ UNCHANGED <<calls, now, entityVars, rentVars, sentVars, faults, orders,
                   products, restaurants, subs, idem, audit>>

\* The next await of a run returns.
SweepReturn(rid) ==
    /\ runs[rid].pc \notin {"idle", "done"}
    /\ LET n == sweepStep(runs[rid], subs, restaurants, audit, now) IN
          /\ runs' = [runs EXCEPT ![rid] = n.run]
          /\ subs' = n.subs
          /\ restaurants' = n.restaurants
          /\ audit' = n.audit
    /\ UNCHANGED <<calls, now, entityVars, rentVars, sentVars, faults, orders,
                   products, idem, last>>

\* The next await of a run throws.
SweepThrow(rid) ==
    /\ runs[rid].pc \notin {"idle", "done"}
    /\ \A other \in RunIds \ {rid} : runs[other] = IdleRun
    /\ faults > 0
    /\ faults' = faults - 1
    /\ runs' = [runs EXCEPT ![rid] = sweepCatch(runs[rid])]
    /\ UNCHANGED <<calls, now, entityVars, rentVars, sentVars, storeVars>>

\* process(job) returns its result and the worker is free again.
SweepEnd(rid) ==
    /\ runs[rid].pc = "done"
    /\ runs' = [runs EXCEPT ![rid] = IdleRun]
    /\ UNCHANGED <<calls, now, entityVars, rentVars, sentVars, faults, storeVars>>

SweepNext ==
    \/ \E rid \in RunIds : SweepStart(rid)
    \/ \E rid \in RunIds : SweepEnd(rid)
    \/ \E rid \in RunIds : SweepReturn(rid)
    \/ \E rid \in RunIds : SweepThrow(rid)
    \* a run takes less than one tick of the clock
    \/ /\ \A rid \in RunIds : runs[rid] = IdleRun
       /\ Tick
       /\ UNCHANGED <<calls, entityVars, rentVars, sentVars, sweepVars, storeVars>>

SpecSweep == SweepInit /\ [][SweepNext]_vars

\* One job, from the rows its query gave in the given order to its
\* return, on the tables s and r and the log a, no call throwing.
SweepOnce(s, r, a, order, n) ==
    process(newRun(<<"job", n>>, <<"uuid", n>>,
                   [i \in DOMAIN order |-> s[order[i]]], now),
            s, r, a, now)

\* The ids of a sequence.
Range(q) == {q[i] : i \in DOMAIN q}

\* C13: the job run twice in a row, the clock standing still and nothing
\* else in between.  The first run expires exactly the subscriptions that
\* are ACTIVE with endDate <= now and suspends the restaurants of these
\* that are active, and touches no other row; the second run selects,
\* expires and suspends nothing and writes no audit entry.
C13_SweepTwice ==
    LET due == {id \in DOMAIN subs :
                   /\ subs[id] # NoRow
                   /\ subs[id].status = "ACTIVE"
                   /\ subs[id].endDate # NullDate
                   /\ subs[id].endDate.date <= now}
        hit == {rid \in DOMAIN restaurants :
                   /\ restaurants[rid] # NoRow
                   /\ isActive(restaurants[rid])
                   /\ \E id \in due : subs[id].restaurantId = rid}
    IN
    \A order \in SeqsOf(findExpiredSubscriptions(subs, now)) :
       LET first == SweepOnce(subs, restaurants, audit, order, 1) IN
       /\ Range(first.run.result.expiredSubscriptions) = due
       /\ Range(first.run.result.suspendedRestaurants) = hit
       /\ \A id \in DOMAIN subs :
             first.subs[id] =
                IF id \in due
                THEN [subs[id] EXCEPT !.status = "EXPIRED",
                                      !.updatedAt = Date(now)]
                ELSE subs[id]
       /\ \A rid \in DOMAIN restaurants :
             first.restaurants[rid] =
                IF rid \in hit
                THEN [restaurants[rid] EXCEPT !.status = "SUSPENDED",
                                              !.updatedAt = Date(now)]
                ELSE restaurants[rid]
       /\ \A again \in SeqsOf(findExpiredSubscriptions(first.subs, now)) :
             LET second == SweepOnce(first.subs, first.restaurants,
                                     first.audit, again, 2)
             IN /\ again = <<>>
                /\ second.run.result =
                      [processedCount |-> 0, expiredSubscriptions |-> <<>>,
                       suspendedRestaurants |-> <<>>, errors |-> <<>>]
                /\ second.subs = first.subs
                /\ second.restaurants = first.restaurants
                /\ second.audit = first.audit

\* Two subscriptions of an active restaurant are due and no job has run
\* yet: the first run expires both and suspends the restaurant.
C13_Witness ==
    /\ findExpiredSubscriptions(subs, now) = {"s1", "s2"}
    /\ isActive(restaurants["r1"])
    /\ audit = <<>>
    /\ \A order \in SeqsOf({"s1", "s2"}) :
          LET first == SweepOnce(subs, restaurants, audit, order, 1) IN
          /\ first.restaurants["r1"].status = "SUSPENDED"
          /\ Len(first.audit) = 3
          /\ findExpiredSubscriptions(first.subs, now) = {}

\* The entries of the log a written by the job jobId while it processed
\* the subscription id.
EntriesOfJob(a, jobId, id) ==
    {i \in DOMAIN a :
        /\ a[i].metadata.jobId = jobId
        /\ \/ a[i].entityType = "Subscription" /\ a[i].entityId = id
           \/ /\ a[i].entityType = "Restaurant"
              /\ a[i].metadata.subscriptionId = id}

\* C14: when a run has processed a subscription whose restaurant it found
\* active (it marked the subscription EXPIRED, suspended the restaurant
\* and no call threw), the run has written exactly two audit entries for
\* that subscription: SUBSCRIPTION_EXPIRED for the subscription, then
\* RESTAURANT_SUSPENDED for its restaurant, both with the correlation id
\* of the run, which every entry of the run carries.
C14_TwoEntries ==
    [][\A rid \in RunIds :
          (/\ runs[rid].pc = "auditSuspended"
           /\ runs'[rid] # runs[rid]
           /\ runs'[rid].result.errors = runs[rid].result.errors)
          => LET run == runs[rid]
                 subscription == run.selected[run.i]
                 mine == EntriesOfJob(audit', run.jobId, subscription.id)
             IN /\ Cardinality(mine) = 2
                /\ \E i \in mine, j \in mine :
                      /\ i < j
                      /\ audit'[i].action = "SUBSCRIPTION_EXPIRED"
                      /\ audit'[i].entityId = subscription.id
                      /\ audit'[i].correlationId = run.correlationId
                      /\ audit'[j].action = "RESTAURANT_SUSPENDED"
                      /\ audit'[j].entityId = subscription.restaurantId
                      /\ audit'[j].correlationId = run.correlationId
                /\ \A i \in DOMAIN audit' :
                      audit'[i].metadata.jobId = run.jobId
                         => audit'[i].correlationId = run.correlationId]_vars

\* Two overlapping runs both found the restaurant active and both
\* suspended it: each has written its two entries under its own
\* correlation id.
C14_Witness ==
    /\ Len(audit) = 4
    /\ \E i, j, k, l \in DOMAIN audit :
          /\ i < j /\ k < l /\ i # k
          /\ audit[i].action = "SUBSCRIPTION_EXPIRED"
          /\ audit[j].action = "RESTAURANT_SUSPENDED"
          /\ audit[j].correlationId = audit[i].correlationId
          /\ audit[j].metadata.subscriptionId = audit[i].entityId
          /\ audit[k].action = "SUBSCRIPTION_EXPIRED"
          /\ audit[l].action = "RESTAURANT_SUSPENDED"
          /\ audit[l].correlationId = audit[k].correlationId
          /\ audit[l].metadata.subscriptionId = audit[k].entityId
          /\ audit[k].correlationId # audit[i].correlationId

\* C15: a call that throws while a run processes one subscription does
\* not abort the run.  When the run returns, every selected subscription
\* has been attempted; each error of the result names a selected
\* subscription, no more errors than calls threw; and every selected
\* subscription without an error is EXPIRED and its restaurant is not
\* active.
C15_FailureIsolated ==
    \A rid \in RunIds :
       runs[rid].pc = "done" =>
          LET run == runs[rid]
              ids == {run.selected[k].id : k \in DOMAIN run.selected}
              failed == {run.result.errors[e].subscription :
                            e \in DOMAIN run.result.errors}
          IN /\ run.result.processedCount = Len(run.selected)
             /\ failed \subseteq ids
             /\ Len(run.result.errors) <= MaxFaults - faults
             /\ \A k \in DOMAIN run.selected :
                   LET subscription == run.selected[k] IN
                   subscription.id \notin failed =>
                      /\ subs[subscription.id].status = "EXPIRED"
                      /\ includes(run.result.expiredSubscriptions,
                                  subscription.id)
                      /\ ~isActive(restaurants[subscription.restaurantId])

\* A run selected two subscriptions of an active restaurant; a call threw
\* while it processed the first and left the restaurant active, and the
\* run went on to expire the second and suspend the restaurant.
C15_Witness ==
    \E rid \in RunIds :
       /\ runs[rid].pc = "done"
       /\ Len(runs[rid].selected) = 2
       /\ Len(runs[rid].result.errors) = 1
       /\ runs[rid].result.errors[1].subscription = runs[rid].selected[1].id
       /\ runs[rid].result.expiredSubscriptions
             = <<runs[rid].selected[1].id, runs[rid].selected[2].id>>
       /\ runs[rid].result.suspendedRestaurants = <<"r1">>
       /\ subs[runs[rid].selected[2].id].status = "EXPIRED"
       /\ restaurants["r1"].status = "SUSPENDED"

\* C17: two runs (or more) that overlap, under every interleaving of
\* their steps and no call throwing: when all of them have returned, the
\* status of every subscription and of every restaurant is the one a
\* single run gives on the tables the first of the runs found.
C17_OverlapAsOne ==
    (/\ faults = MaxFaults
     /\ \A rid \in RunIds : runs[rid].pc = "done")
    => \A order \in SeqsOf(findExpiredSubscriptions(last.subs, now)) :
          LET single == SweepOnce(last.subs, last.restaurants, <<>>,
                                  order, 1)
          IN /\ \A id \in DOMAIN subs :
                   IF subs[id] = NoRow THEN single.subs[id] = NoRow
                   ELSE subs[id].status = single.subs[id].status
             /\ \A id \in DOMAIN restaurants :
                   restaurants[id].status = single.restaurants[id].status

\* Two runs selected the same subscription and both found the restaurant
\* active: both marked the subscription EXPIRED, both suspended the
\* restaurant, and both have returned.
C17_Witness ==
    /\ faults = MaxFaults
    /\ \A rid \in RunIds :
          /\ runs[rid].pc = "done"
          /\ runs[rid].result.expiredSubscriptions # <<>>
          /\ runs[rid].result.suspendedRestaurants = <<"r1">>
    /\ runs[1].result.expiredSubscriptions = runs[2].result.expiredSubscriptions
    /\ isActive(last.restaurants["r1"])
    /\ restaurants["r1"].status = "SUSPENDED"

\* SpecSweepFair: jobs keep being queued (the cron schedule), and a
\* worker that has a job goes on with it.  Calls throw MaxFaults times at
\* most, so that from some point on no call throws.
SpecSweepFair ==
    /\ SpecSweep
    /\ WF_vars(\E rid \in RunIds : SweepStart(rid))
    /\ WF_vars(\E rid \in RunIds : SweepReturn(rid))
    /\ WF_vars(\E rid \in RunIds : SweepEnd(rid))

\* A run marked the subscription EXPIRED and then a call threw before the
\* restaurant was suspended: the restaurant is active, has no ACTIVE
\* subscription, and the run has recorded the error.
HalfExpired(id) ==
    /\ subs[id] # NoRow
    /\ subs[id].status = "EXPIRED"
    /\ isActive(restaurants[subs[id].restaurantId])
    /\ \A other \in DOMAIN subs :
          subs[other] = NoRow \/ subs[other].status # "ACTIVE"
    /\ \E rid \in RunIds :
          \E e \in DOMAIN runs[rid].result.errors :
             /\ runs[rid].result.errors[e].subscription = id
             /\ runs[rid].result.errors[e].at # "markExpired"

C19_CreateUnlessActive ==
    LET r == subscriptionCreate("r1", "u1", <<"x1">>)
        created == {id \in DOMAIN subs : r.subs[id] # subs[id]}
    IN
    IF \E id \in DOMAIN subs :
          /\ subs[id] # NoRow
          /\ subs[id].restaurantId = "r1"
          /\ subs[id].status = "ACTIVE"
          /\ subs[id].endDate \notin {NullDate, UndefinedDate}
          /\ subs[id].endDate.date > now
    THEN /\ r.res.outcome = "BadRequest"
         /\ r.subs = subs
         /\ r.audit = audit
    ELSE /\ r.res.outcome = "ok"
         /\ Cardinality(created) = 1
         /\ \A id \in created :
               /\ subs[id] = NoRow
               /\ r.subs[id].status = "PENDING"
               /\ r.subs[id].restaurantId = "r1"
               /\ r.subs[id].startDate = NullDate
               /\ r.subs[id].endDate = NullDate

(***************************************************************************)
(* SpecOrderSweep: order creation, the clock, and the expiration job,      *)
(* each job running from its query to its return with no request in        *)
(* between.                                                                *)
(***************************************************************************)
\* A worker runs one job that has something to expire.
ExpirationJob ==
    /\ \E order \in SeqsOf(findExpiredSubscriptions(subs, now)) :
          /\ order # <<>>
          /\ LET n == process(newRun(<<"job", Len(audit) + 1>>,
                                     uuidv4(audit),
                                     [i \in DOMAIN order |-> subs[order[i]]],
                                     now),
                              subs, restaurants, audit, now)
             IN /\ subs' = n.subs
                /\ restaurants' = n.restaurants
                /\ audit' = n.audit
    /\ UNCHANGED <<calls, now, entityVars, rentVars, sentVars, sweepVars, orders,
                   products, idem, last>>

OrderSweepNext ==
    \/ \E dto \in CreateOrderDtos, c \in Customers, key \in Keys :
          Request("orderCreate", key, [NoArgs EXCEPT !.dto = dto],
                  orderCreate(dto, c, key))
    \/ IdemExpire
    \/ ExpirationJob
    \/ /\ Tick
       /\ UNCHANGED <<calls, entityVars, rentVars, sentVars, sweepVars, storeVars>>

SpecOrderSweep == Init /\ [][OrderSweepNext]_vars

\* The restaurant of the id exists, is active, and has an ACTIVE
\* subscription with endDate > now.
CanOrderFrom(restaurantId) ==
    /\ restaurantFindById(restaurantId) # NoRow
    /\ isActive(restaurantFindById(restaurantId))
    /\ \E id \in DOMAIN subs :
          /\ subs[id] # NoRow
          /\ subs[id].restaurantId = restaurantId
          /\ subs[id].status = "ACTIVE"
          /\ subs[id].endDate \notin {NullDate, UndefinedDate}
          /\ subs[id].endDate.date > now

\* The key has no stored response and no order carries it.
FreshKey(key) == ~check(key).exists /\ findByIdempotencyKey(key) = NoRow

\* The dtos of the requests, and one for a restaurant that does not exist.
GatedDtos ==
    CreateOrderDtos
       \cup {[restaurantId |-> "r9",
              items |-> <<[menuItemId |-> "m1", quantity |-> 2]>>]}

\* C12 as stated: OrderUseCase.create persists an order only if the
\* restaurant exists, is active and has an ACTIVE subscription with
\* endDate > now; otherwise the call fails with NotFound or Forbidden and
\* writes no order, idempotency record or audit entry.  Violated: a call
\* with the key of an order created before the sweep returns that order's
\* response and does not fail.
C12_CreateFailsUnlessEntitled ==
    \A dto \in GatedDtos, c \in Customers, key \in Keys :
       LET r == orderCreate(dto, c, key) IN
       /\ r.orders # orders => CanOrderFrom(dto.restaurantId)
       /\ ~CanOrderFrom(dto.restaurantId) =>
             /\ r.res.outcome \in {"NotFound", "Forbidden"}
             /\ r.orders = orders
             /\ r.idem = idem
             /\ r.audit = audit

\* C12, amended: OrderUseCase.create persists an order only if the
\* restaurant exists, is active and has an ACTIVE subscription with
\* endDate > now; otherwise no order, idempotency record or audit entry is
\* written, and, unless the idempotency key already has a stored response
\* or an order, the call fails: NotFound if the restaurant does not exist,
\* Forbidden if it does.  So after a sweep has expired the subscription
\* and suspended the restaurant, every attempt with a new key is Forbidden.
C12_CreateGated ==
    \A dto \in GatedDtos, c \in Customers, key \in Keys :
       LET r == orderCreate(dto, c, key) IN
       /\ r.orders # orders => CanOrderFrom(dto.restaurantId)
       /\ ~CanOrderFrom(dto.restaurantId) =>
             /\ r.orders = orders
             /\ r.idem = idem
             /\ r.audit = audit
             /\ FreshKey(key) =>
                   r.res.outcome =
                      IF restaurantFindById(dto.restaurantId) = NoRow
                      THEN "NotFound" ELSE "Forbidden"

\* An order was created, then a job expired the subscription and suspended
\* the restaurant: one key replays the order, the other key is refused.
C12_Witness ==
    /\ \E i \in DOMAIN audit : audit[i].action = "RESTAURANT_SUSPENDED"
    /\ \E id \in DOMAIN subs : subs[id] # NoRow /\ subs[id].status = "EXPIRED"
    /\ restaurants["r1"].status = "SUSPENDED"
    /\ \E dto \in CreateOrderDtos, c \in Customers, k1 \in Keys, k2 \in Keys :
          /\ ~FreshKey(k1)
          /\ orderCreate(dto, c, k1).res.outcome = "ok"
          /\ FreshKey(k2)
          /\ orderCreate(dto, c, k2).res.outcome = "Forbidden"

(***************************************************************************)
(* SpecAudit: every operation that changes an order, a subscription or a   *)
(* restaurant, one call or one job at a time, from the tables Spec and     *)
(* SpecAdmin start with.                                                   *)
(***************************************************************************)
AuditInit == Init \/ AdminInit

\* A call of an order use case that returns: r is what the handler gives.
OrderCall(r) ==
    /\ r.res.outcome = "ok"
    /\ Len(r.audit) <= MaxAdminAudit
    /\ orders' = r.orders
    /\ idem' = r.idem
    /\ audit' = r.audit
    /\ UNCHANGED <<calls, now, entityVars, rentVars, sentVars, sweepVars, products,
                   restaurants, subs, last>>

\* A call of the subscription or admin use case that returns.
AdminCall(r) ==
    /\ r.res.outcome = "ok"
    /\ Len(r.audit) <= MaxAdminAudit
    /\ subs' = r.subs
    /\ restaurants' = r.restaurants
    /\ audit' = r.audit
    /\ UNCHANGED <<calls, now, entityVars, rentVars, sentVars, sweepVars, orders,
                   products, idem, last>>

AuditNext ==
    \/ \E dto \in CreateOrderDtos : OrderCall(orderCreate(dto, "c1", "k1"))
    \/ \E id \in OrderIds : OrderCall(acceptOrder(id, "u1", "k2"))
    \/ \E id \in OrderIds : OrderCall(rejectOrder(id, <<"a">>, "u1", "k2"))
    \/ \E id \in OrderIds : OrderCall(cancelOrder(id, <<"a">>, "u1", "k2"))
    \/ \E id \in OrderIds : OrderCall(reportOrder(id, <<"a">>, "u1", "k2"))
    \/ \E id \in OrderIds, status \in {"ACCEPTED", "CONFIRMED"} :
          OrderCall(updateOrderStatus(id, status, "u1"))
    \/ \E id \in OrderIds, status \in {"ACCEPTED", "DELIVERED"} :
          OrderCall(updateStatus(id, status, "u1"))
    \/ AdminCall(subscriptionCreate("r1", "u1", <<"x1">>))
    \/ \E id \in DOMAIN subs :
          AdminCall(validatePayment(id, "a1", "k1", <<"x1">>))
    \/ \E id \in DOMAIN subs :
          AdminCall(cancelSubscription(id, "u1", <<"x1">>))
    \/ AdminCall(suspendRestaurant("r1", "a1", <<"a">>, <<"x1">>))
    \/ ExpirationJob

SpecAudit == AuditInit /\ [][AuditNext]_vars

\* The status of a row or of a state of an audit entry, "none" for none.
StatusOf(row) == IF row = NoRow THEN "none" ELSE row.status

\* The entries of the log a that carry a state of the entity.
StateEntries(a, entityType, id) ==
    {i \in DOMAIN a :
        /\ a[i].entityType = entityType
        /\ a[i].entityId = id
        /\ a[i].newState # NoRow}

\* The entries an operation appended to log a, giving log b.
Appended(a, b) == [i \in 1..(Len(b) - Len(a)) |-> b[Len(a) + i]]

\* The operation that took the table from before to after and appended
\* new to the log has written, for every row it changed, exactly one entry
\* with the states of that entity, and every entry with states it has
\* written has the entity's status before and after as its previous and
\* new status.
Audited(entityType, before, after, new) ==
    \A id \in DOMAIN before :
       /\ after[id] # before[id]
             => Cardinality(StateEntries(new, entityType, id)) = 1
       /\ \A i \in StateEntries(new, entityType, id) :
             /\ StatusOf(new[i].previousState) = StatusOf(before[id])
             /\ StatusOf(new[i].newState) = StatusOf(after[id])

\* C18: every successful state-changing operation (order create, accept,
\* reject, cancel, report, status update; subscription create, activate,
\* cancel; restaurant suspension by an admin; the expiration job) appends
\* to the audit log, for every order, subscription or restaurant it
\* changes, exactly one entry that carries the entity's states: its
\* entity id is that of the changed entity and its previous and new status
\* are the entity's status before and after.  Entries are only appended.
C18_OneEntryPerMutation ==
    [][/\ Len(audit') >= Len(audit)
       /\ SubSeq(audit', 1, Len(audit)) = audit
       /\ Audited("Order", orders, orders', Appended(audit, audit'))
       /\ Audited("Subscription", subs, subs', Appended(audit, audit'))
       /\ Audited("Restaurant", restaurants, restaurants',
                  Appended(audit, audit'))]_vars

\* A payment was validated: the subscription and the restaurant went to
\* ACTIVE, and the log ends with one entry for each and the entry of the
\* validation, which carries no state.
C18_Witness ==
    /\ Len(audit) >= 3
    /\ audit[Len(audit) - 2].action = "RESTAURANT_ACTIVATED"
    /\ audit[Len(audit) - 1].action = "SUBSCRIPTION_ACTIVATED"
    /\ audit[Len(audit)].action = "PAYMENT_VALIDATED"
    /\ StatusOf(audit[Len(audit) - 1].previousState) # "ACTIVE"
    /\ subs[audit[Len(audit)].entityId].status = "ACTIVE"
    /\ restaurants["r1"].status = "ACTIVE"


\* C23: a cancelSubscription that returns sets the status of that
\* subscription to CANCELLED and leaves every restaurant, every other
\* subscription and every order as it was.
C23_CancelFrame ==
    [][(/\ Len(audit') = Len(audit) + 1
        /\ audit'[Len(audit')].action = "SUBSCRIPTION_CANCELLED")
       => LET id == audit'[Len(audit')].entityId IN
          /\ subs'[id].status = "CANCELLED"
          /\ \A other \in DOMAIN subs \ {id} : subs'[other] = subs[other]
          /\ restaurants' = restaurants
          /\ orders' = orders]_vars

\* The subscription of an ACTIVE restaurant that has an order was
\* cancelled: the restaurant is still ACTIVE and the order is there.
C23_Witness ==
    /\ audit # <<>>
    /\ audit[Len(audit)].action = "SUBSCRIPTION_CANCELLED"
    /\ audit[Len(audit)].previousState.status = "ACTIVE"
    /\ subs[audit[Len(audit)].entityId].status = "CANCELLED"
    /\ restaurants["r1"].status = "ACTIVE"
    /\ \E id \in OrderIds : orders[id] # NoRow

(***************************************************************************)
(* SpecRestaurantLife: a restaurant from its creation on, under the calls  *)
(* of its owner, of customers, of the administrator and of the expiration  *)
(* worker.                                                                 *)
(***************************************************************************)
MaxLifeAudit == 6

\* Fault injection: the repository creates the row as ACTIVE.
restaurantCreateActive(id, ownerId, t) ==
    RestaurantProps(id, "ACTIVE", ownerId, NullDate, t)

\* PrismaRestaurantRepository.create: the new row is PENDING.
restaurantCreate(id, ownerId, t) ==
    RestaurantProps(id, "PENDING", ownerId, NullDate, t)

\* PrismaRestaurantRepository.update: name, description, address and phone,
\* none of which the row of the model carries.
restaurantUpdate(row, t) == [row EXCEPT !.updatedAt = Date(t)]

\* RestaurantUseCase.create
restaurantUseCaseCreate(ownerId, correlationId) ==
    LET \* restaurantRepository.findByOwnerId(ownerId)
        existingRestaurant ==
            {id \in RestaurantIds :
                /\ restaurants[id] # NoRow
                /\ restaurants[id].ownerId = ownerId
                /\ restaurants[id].deletedAt = NullDate}
        free == {id \in RestaurantIds : restaurants[id] = NoRow}
        id == CHOOSE i \in free : TRUE
        restaurant == restaurantCreate(id, ownerId, now)
    IN
    IF existingRestaurant # {} THEN AdminThrow("Forbidden")
    ELSE IF free = {} THEN AdminThrow("TableFull")
    ELSE AdminReturn([id |-> restaurant.id, status |-> restaurant.status],
                     subs, [restaurants EXCEPT ![id] = restaurant],
                     auditCreate(audit,
                         [action |-> "RESTAURANT_CREATED",
                          entityType |-> "Restaurant",
                          entityId |-> id,
                          previousState |-> NoRow,
                          newState |-> restaurant,
                          correlationId |->
                              OrElse(correlationId, uuidv4(audit)),
                          userId |-> ownerId]))

\* RestaurantUseCase.update: it writes no audit entry.
restaurantUseCaseUpdate(id, ownerId) ==
    LET restaurant == restaurantFindById(id)
        updated == restaurantUpdate(restaurant, now)
    IN
    IF restaurant = NoRow THEN AdminThrow("NotFound")
    ELSE IF restaurant.ownerId # ownerId THEN AdminThrow("Forbidden")
    ELSE AdminReturn([id |-> updated.id, status |-> updated.status],
                     subs, [restaurants EXCEPT ![id] = updated], audit)

LifeInit ==
    /\ now = 0
    /\ IdleEntity
    /\ IdleRent
    /\ IdleSent
    /\ IdleSweep
    /\ IdleCalls
    /\ restaurants = [id \in RestaurantIds |-> NoRow]
    /\ subs = [id \in SubscriptionIds |-> NoRow]
    /\ orders = [id \in OrderIds |-> NoRow]
    /\ products = [id \in ProductIds |-> NoRow]
    /\ idem = [key \in Keys |-> NoRecord]
    /\ audit = <<>>
    /\ last = NoRow

\* The table f after a call with result r: the handler's if it has one.
TableAfter(r, f, table) == IF f \in DOMAIN r THEN r[f] ELSE table

\* A call of a use case that returns.
LifeCall(r) ==
    /\ r.res.outcome = "ok"
    /\ Len(r.audit) <= MaxLifeAudit
    /\ orders' = TableAfter(r, "orders", orders)
    /\ products' = TableAfter(r, "products", products)
    /\ idem' = TableAfter(r, "idem", idem)
    /\ subs' = TableAfter(r, "subs", subs)
    /\ restaurants' = TableAfter(r, "restaurants", restaurants)
    /\ audit' = r.audit
    /\ UNCHANGED <<calls, now, entityVars, rentVars, sentVars, sweepVars, last>>

LifeNext ==
    \/ LifeCall(restaurantUseCaseCreate("u1", Undefined))
    \/ \E id \in RestaurantIds : LifeCall(restaurantUseCaseUpdate(id, "u1"))
    \/ \E id \in RestaurantIds :
          LifeCall(subscriptionCreate(id, "u1", Undefined))
    \/ \E id \in SubscriptionIds :
          LifeCall(validatePayment(id, "a1", "k1", Undefined))
    \/ \E id \in SubscriptionIds :
          LifeCall(cancelSubscription(id, "u1", Undefined))
    \* the administrator suspends a restaurant that is not suspended yet
    \/ \E id \in RestaurantIds :
          /\ restaurants[id] # NoRow
          /\ restaurants[id].status # "SUSPENDED"
          /\ LifeCall(suspendRestaurant(id, "a1", <<"a">>, Undefined))
    \/ \E id \in RestaurantIds :
          LifeCall(orderCreate([restaurantId |-> id,
                                items |-> <<[menuItemId |-> "m1",
                                             quantity |-> 2]>>],
                               "c1", "k1"))
    \/ \E id \in RestaurantIds :
          LifeCall(productCreate([price |-> 25, quantity |-> None,
                                  status |-> None], id, "u1", "k2"))
    \/ ExpirationJob
    \* time is counted from the creation of the restaurant
    \/ /\ \E id \in RestaurantIds : restaurants[id] # NoRow
       /\ Tick
       /\ UNCHANGED <<calls, entityVars, rentVars, sentVars, sweepVars, storeVars>>

SpecRestaurantLife == LifeInit /\ [][LifeNext]_vars

\* C24: a restaurant enters the table as PENDING, and a step makes the
\* status of a restaurant ACTIVE only if the same step activates a
\* subscription of that restaurant.
C24_ActiveOnlyByActivation ==
    [][\A id \in RestaurantIds :
          /\ (restaurants[id] = NoRow /\ restaurants'[id] # NoRow)
             => restaurants'[id].status = "PENDING"
          /\ (/\ restaurants'[id] # NoRow
              /\ restaurants'[id].status = "ACTIVE"
              /\ (restaurants[id] = NoRow \/ restaurants[id].status # "ACTIVE"))
             => \E sid \in DOMAIN subs :
                   /\ subs[sid] # NoRow
                   /\ subs[sid].restaurantId = id
                   /\ subs[sid].status # "ACTIVE"
                   /\ subs'[sid].status = "ACTIVE"
                   /\ \E i \in (Len(audit) + 1)..Len(audit') :
                         /\ audit'[i].action = "SUBSCRIPTION_ACTIVATED"
                         /\ audit'[i].entityId = sid]_vars

\* A restaurant that was created, suspended by the administrator and made
\* ACTIVE again by a validated payment.
C24_Witness ==
    /\ restaurants["r1"] # NoRow
    /\ restaurants["r1"].status = "ACTIVE"
    /\ \E i, j, k \in DOMAIN audit :
          /\ i < j
          /\ j < k
          /\ audit[i].action = "RESTAURANT_CREATED"
          /\ audit[j].action = "RESTAURANT_SUSPENDED"
          /\ audit[k].action = "SUBSCRIPTION_ACTIVATED"

(***************************************************************************)
(* SpecDashboard: acceptOrder and rejectOrder of the restaurant dashboard, *)
(* step by step.  Each worker runs one call; a call advances by one await  *)
(* at a time, so that the calls of two workers interleave at every await.  *)
(***************************************************************************)
MaxCallAudit == 3

CallIds == {1, 2}

DashboardOps == {"acceptOrder", "rejectOrder"}

\* The locals of a call: its arguments, the order it read, the response it
\* built, and where it stands.
IdleCall ==
    [pc |-> "idle", op |-> "none", orderId |-> "none", key |-> "none",
     existingResult |-> [exists |-> FALSE, response |-> NoRecord],
     order |-> NoRow, updatedOrder |-> NoRow, response |-> NoRow,
     outcome |-> "none"]

\* The call c has returned body or thrown outcome.
callDone(c, outcome, body) ==
    [IdleCall EXCEPT !.pc = "done", !.op = c.op, !.orderId = c.orderId,
                     !.key = c.key, !.existingResult = c.existingResult,
                     !.outcome = outcome, !.response = body]

\* What a step of a call leaves behind.
callResult(c, o, i, a) == [call |-> c, orders |-> o, idem |-> i, audit |-> a]

\* The repository write of the operation, on the row as it is now.
callWrite(op, row) ==
    IF op = "acceptOrder" THEN orderUpdateStatus(row, "ACCEPTED")
    ELSE updateOrderWithReason(row,
             [UpdateOrderStatusData("REJECTED") EXCEPT
                 !.rejectionReason = <<"a">>])

\* acceptOrder / rejectOrder from one await to the next.
callStep(c) ==
    CASE c.pc = "check" ->
           LET existingResult == check(c.key) IN
           IF existingResult.exists
           THEN callResult(callDone([c EXCEPT
                                       !.existingResult = existingResult],
                                    "ok", existingResult.response.body),
                           orders, idem, audit)
           ELSE callResult([c EXCEPT !.pc = "findOrder",
                                     !.existingResult = existingResult],
                           orders, idem, audit)
      [] c.pc = "findOrder" ->
           LET order == orderFindById(c.orderId) IN
           IF order = NoRow
           THEN callResult(callDone(c, "NotFound", NoRow),
                           orders, idem, audit)
           ELSE callResult([c EXCEPT !.pc = "findRestaurant",
                                     !.order = order],
                           orders, idem, audit)
      [] c.pc = "findRestaurant" ->
           LET restaurant == restaurantFindById(c.order.restaurantId)
               inTarget == IF c.op = "acceptOrder" THEN isAccepted(c.order)
                           ELSE isRejected(c.order)
               canMove == IF c.op = "acceptOrder" THEN canBeAccepted(c.order)
                          ELSE canBeRejected(c.order)
           IN
           IF restaurant = NoRow \/ restaurant.ownerId # "u1"
           THEN callResult(callDone(c, "Forbidden", NoRow),
                           orders, idem, audit)
           ELSE IF inTarget
           THEN callResult([c EXCEPT !.pc = "storeAlready",
                               !.response = toOrderResponseDto(c.order)],
                           orders, idem, audit)
           ELSE IF ~canMove
           THEN callResult(callDone(c, "InvalidTransition", NoRow),
                           orders, idem, audit)
           ELSE callResult([c EXCEPT !.pc = "update"], orders, idem, audit)
      [] c.pc = "update" ->
           LET updatedOrder == callWrite(c.op, orders[c.orderId]) IN
           callResult([c EXCEPT !.pc = "store",
                                !.updatedOrder = updatedOrder,
                                !.response = toOrderResponseDto(updatedOrder)],
                      [orders EXCEPT ![c.orderId] = updatedOrder],
                      idem, audit)
      [] c.pc = "storeAlready" ->
           callResult(callDone(c, "ok", c.response), orders,
                      store(idem, c.key, 200, c.response), audit)
      [] c.pc = "store" ->
           callResult([c EXCEPT !.pc = "audit"], orders,
                      store(idem, c.key, 200, c.response), audit)
      [] c.pc = "audit" ->
           callResult(callDone(c, "ok", c.response), orders, idem,
                      auditCreate(audit,
                          [action |-> IF c.op = "acceptOrder"
                                      THEN "ORDER_ACCEPTED"
                                      ELSE "ORDER_REJECTED",
                           entityType |-> "Order", entityId |-> c.orderId,
                           previousState |-> c.order,
                           newState |-> c.updatedOrder,
                           correlationId |-> uuidv4(audit),
                           userId |-> "u1"]))

\* Restaurant r1 of owner u1 with a valid subscription, and the PENDING
\* order a customer created at time 0 with key k1, whose record has run
\* out.
DashInit ==
    /\ now = 0
    /\ IdleEntity
    /\ IdleRent
    /\ IdleSent
    /\ IdleSweep
    /\ calls = [w \in CallIds |-> IdleCall]
    /\ restaurants =
          [id \in RestaurantIds |->
              RestaurantProps(id, "ACTIVE", "u1", NullDate, 0)]
    /\ subs = [id \in SubscriptionIds |->
                  SubscriptionProps(id, "ACTIVE", "r1", Date(0),
                                    Date(MaxTime), 0)]
    /\ LET order == OrderProps("o1", "PENDING", "k1", "c1", "r1", 50, 0) IN
          /\ orders = [id \in OrderIds |-> IF id = "o1" THEN order ELSE NoRow]
          /\ audit = <<[action |-> "ORDER_CREATED", entityType |-> "Order",
                        entityId |-> "o1", previousState |-> NoRow,
                        newState |-> order, correlationId |-> uuidv4(<<>>),
                        userId |-> "c1"]>>
    /\ products = [id \in ProductIds |-> NoRow]
    /\ idem = [k \in Keys |-> NoRecord]
    /\ last = NoRow

\* The owner's request reaches a free worker.
CallStart(w) ==
    /\ calls[w].pc = "idle"
    /\ Len(audit) < MaxCallAudit
    /\ \E op \in DashboardOps, key \in Keys :
          calls' = [calls EXCEPT ![w] =
                       [IdleCall EXCEPT !.pc = "check", !.op = op,
                                        !.orderId = "o1", !.key = key]]
    /\ UNCHANGED <<now, entityVars, rentVars, sentVars, sweepVars, storeVars>>

\* The next await of a call returns.
CallReturn(w) ==
    /\ calls[w].pc \notin {"idle", "done"}
    /\ LET n == callStep(calls[w]) IN
          /\ calls' = [calls EXCEPT ![w] = n.call]
          /\ orders' = n.orders
          /\ idem' = n.idem
          /\ audit' = n.audit
    /\ UNCHANGED <<now, entityVars, rentVars, sentVars, sweepVars, products,
                   restaurants, subs, last>>

\* The response is sent and the worker is free again.
CallEnd(w) ==
    /\ calls[w].pc = "done"
    /\ calls' = [calls EXCEPT ![w] = IdleCall]
    /\ UNCHANGED <<now, entityVars, rentVars, sentVars, sweepVars, storeVars>>

DashNext ==
    \/ \E w \in CallIds : CallStart(w)
    \/ \E w \in CallIds : CallReturn(w)
    \/ \E w \in CallIds : CallEnd(w)
    \/ /\ Tick
       /\ UNCHANGED <<calls, entityVars, rentVars, sentVars, sweepVars,
                      storeVars>>

SpecDashboard == DashInit /\ [][DashNext]_vars

\* C25: a step never replaces a live idempotency record by another one.
C25_RecordNeverUpdated ==
    [][\A key \in Keys :
          idem[key] # NoRecord => idem'[key] \in {idem[key], NoRecord}]_vars

C30_ConflictingCallsSerialize ==
    [][/\ \A id \in OrderIds :
             (orders[id] # NoRow /\ orders'[id].status # orders[id].status)
             => canTransitionTo(orders[id], orders'[id].status)
       /\ \A w, v \in CallIds :
             ~(/\ calls'[w].pc = "done"
               /\ calls'[v].pc = "done"
               /\ calls'[w].op = "acceptOrder"
               /\ calls'[v].op = "rejectOrder"
               /\ calls'[w].outcome = "ok"
               /\ calls'[v].outcome = "ok"
               /\ calls'[w].response.status = "ACCEPTED"
               /\ calls'[v].response.status = "REJECTED")]_vars


(***************************************************************************)
(* SpecRenewal: the subscriptions of one restaurant over time.  The owner  *)
(* and the admin call the subscription use case while one worker runs the  *)
(* expiration job, one await at a time.                                    *)
(***************************************************************************)
\* Restaurant r1 is ACTIVE with one subscription activated at time -1 or 0
\* for one month.  The owner asked for s1 at time -2 and may have asked
\* for a second subscription s2 at time -1, before either was ACTIVE; the
\* admin activated one of the two and the other is PENDING.
RenewInit ==
    /\ now = 0
    /\ IdleEntity
    /\ IdleRent
    /\ IdleSent
    /\ IdleCalls
    /\ \E a \in {-1, 0}, paid \in AdminSubscriptionIds, second \in BOOLEAN :
          /\ paid = "s2" => second
          /\ subs = [id \in AdminSubscriptionIds |->
                        LET t == IF id = "s1" THEN -2 ELSE -1 IN
                        IF id = "s2" /\ ~second THEN NoRow
                        ELSE IF id = paid
                        THEN [SubscriptionProps(id, "ACTIVE", "r1", Date(a),
                                                Date(a + MonthTicks), t)
                                EXCEPT !.updatedAt = Date(a)]
                        ELSE SubscriptionProps(id, "PENDING", "r1", NullDate,
                                               NullDate, t)]
    /\ restaurants =
          [id \in RestaurantIds |->
              RestaurantProps(id, "ACTIVE", "u1", NullDate, -1)]
    /\ orders = [id \in OrderIds |-> NoRow]
    /\ products = [id \in ProductIds |-> NoRow]
    /\ idem = [k \in Keys |-> NoRecord]
    /\ audit = <<>>
    /\ last = NoRow
    /\ runs = [rid \in RunIds |-> IdleRun]
    /\ faults = MaxFaults

RenewNext ==
    \/ AdminCall(subscriptionCreate("r1", "u1", <<"x1">>))
    \/ \E id \in AdminSubscriptionIds :
          AdminCall(activateSubscription(id, "a1", <<"x1">>))
    \/ \E id \in AdminSubscriptionIds :
          AdminCall(cancelSubscription(id, "u1", <<"x1">>))
    \/ SweepStart(1)
    \/ SweepReturn(1)
    \/ SweepEnd(1)
    \* a run takes less than one tick of the clock
    \/ /\ \A rid \in RunIds : runs[rid] = IdleRun
       /\ Tick
       /\ UNCHANGED <<calls, entityVars, rentVars, sentVars, sweepVars, storeVars>>

SpecRenewal == RenewInit /\ [][RenewNext]_vars

\* C31: the expire step of the job changes a subscription's status only
\* from ACTIVE to EXPIRED: when the subscription a run selected is no
\* longer ACTIVE at the time of the run's markExpired write (it was
\* cancelled in between), the write leaves the row as it is.
C31_ExpireOnlyFromActive ==
    [][\A rid \in RunIds :
          (runs[rid].pc = "markExpired" /\ runs'[rid].pc = "auditExpired") =>
             LET id == runs[rid].selected[runs[rid].i].id IN
             IF subs[id].status = "ACTIVE"
             THEN subs'[id].status = "EXPIRED"
             ELSE subs'[id] = subs[id]]_vars

\* The restaurant has a subscription that is ACTIVE with endDate > now.
HasCurrentSubscription(restaurantId) ==
    \E id \in DOMAIN subs :
       /\ subs[id] # NoRow
       /\ subs[id].restaurantId = restaurantId
       /\ subscriptionIsValid(subs[id], now)

\* C36: the job never suspends a restaurant that has an ACTIVE
\* subscription with endDate > now: a restaurant renewed through a newly
\* activated subscription stays ACTIVE when the run expires the old one.
C36_SweepKeepsRenewed ==
    [][\A rid \in RunIds :
          (runs[rid].pc = "suspend" /\ runs'[rid].pc = "auditSuspended") =>
             ~HasCurrentSubscription(runs[rid].restaurant.id)]_vars

\* C37: a restaurant has at most one subscription that is ACTIVE with
\* endDate > now.
C37_OneCurrentSubscription ==
    \A restaurantId \in RestaurantIds :
       Cardinality({id \in DOMAIN subs :
                       /\ subs[id] # NoRow
                       /\ subs[id].restaurantId = restaurantId
                       /\ subscriptionIsValid(subs[id], now)}) <= 1

\* C38: a subscription that is EXPIRED or CANCELLED never becomes ACTIVE
\* again, and an EXPIRED subscription keeps its status.
C38_EndStatesStay ==
    [][\A id \in DOMAIN subs :
          subs[id] # NoRow =>
             /\ subs[id].status \in {"EXPIRED", "CANCELLED"} =>
                   subs'[id].status # "ACTIVE"
             /\ subs[id].status = "EXPIRED" => subs'[id].status = "EXPIRED"]_vars

(***************************************************************************)
(* SpecCreate: OrderUseCase.create taken one await at a time.  Two         *)
(* customers send requests, two workers serve them, an await may throw,    *)
(* and the records of the idempotency cache run out after their TTL.       *)
(***************************************************************************)
CreateCustomers == {"c1", "c2"}

TheCreateDto ==
    [restaurantId |-> "r1", items |-> <<[menuItemId |-> "m1", quantity |-> 2]>>]

\* The locals of a call of create.
IdleCreate ==
    [pc |-> "idle", key |-> "none", customerId |-> "none",
     order |-> NoRow, response |-> NoRow, outcome |-> "none"]

\* The call c has returned body or thrown outcome.
createDone(c, outcome, body) ==
    [IdleCreate EXCEPT !.pc = "done", !.key = c.key,
                       !.customerId = c.customerId,
                       !.outcome = outcome, !.response = body]

\* Fault injection: an insert into a table without the unique index.
orderInsertAnyKey(table, order) ==
    IF order.id = "none" THEN [ok |-> FALSE, orders |-> table]
    ELSE [ok |-> TRUE, orders |-> [table EXCEPT ![order.id] = order]]

\* prisma.order.create on a table with a unique index on idempotencyKey:
\* the insert of a second row with a key fails and writes nothing.
orderInsert(table, order) ==
    IF \E o \in DOMAIN table :
          table[o] # NoRow /\ table[o].idempotencyKey = order.idempotencyKey
    THEN [ok |-> FALSE, orders |-> table]
    ELSE orderInsertAnyKey(table, order)

\* OrderUseCase.create from one await to the next.
createStep(c) ==
    CASE c.pc = "check" ->
           LET existingResult == check(c.key) IN
           IF existingResult.exists
           THEN callResult(createDone(c, "ok", existingResult.response.body),
                           orders, idem, audit)
           ELSE callResult([c EXCEPT !.pc = "findByKey"], orders, idem, audit)
      [] c.pc = "findByKey" ->
           LET existingOrder == findByIdempotencyKey(c.key) IN
           IF existingOrder # NoRow
           THEN callResult(createDone(c, "ok",
                                      toOrderResponseDto(existingOrder)),
                           orders, idem, audit)
           ELSE callResult([c EXCEPT !.pc = "validate"], orders, idem, audit)
      [] c.pc = "validate" ->
           LET dto == TheCreateDto
               restaurant == restaurantFindById(dto.restaurantId)
               subscription == findActiveByRestaurantId(dto.restaurantId)
           IN
           IF restaurant = NoRow
           THEN callResult(createDone(c, "NotFound", NoRow),
                           orders, idem, audit)
           ELSE IF ~isActive(restaurant)
                   \/ subscription = NoRow
                   \/ ~subscriptionIsValid(subscription, now)
           THEN callResult(createDone(c, "Forbidden", NoRow),
                           orders, idem, audit)
           ELSE IF itemsOutcome(dto.items, dto.restaurantId) # "ok"
           THEN callResult(createDone(c, itemsOutcome(dto.items,
                                                      dto.restaurantId),
                                      NoRow),
                           orders, idem, audit)
           ELSE callResult([c EXCEPT !.pc = "create"], orders, idem, audit)
      [] c.pc = "create" ->
           LET dto == TheCreateDto
               order ==
                   [id |-> nextOrderId, status |-> "PENDING",
                    totalAmount |-> totalAmountOf(dto.items), notes |-> Null,
                    idempotencyKey |-> c.key, customerId |-> c.customerId,
                    restaurantId |-> dto.restaurantId,
                    items |-> orderItemsOf(dto.items),
                    rejectionReason |-> Null, reportReason |-> Null,
                    cancellationReason |-> Null,
                    createdAt |-> Date(now), updatedAt |-> Date(now)]
               inserted == orderInsert(orders, order)
           IN
           IF ~inserted.ok
           THEN callResult(createDone(c, "InsertFailed", NoRow),
                           orders, idem, audit)
           ELSE callResult([c EXCEPT !.pc = "store", !.order = order,
                               !.response = toOrderResponseDto(order)],
                           inserted.orders, idem, audit)
      [] c.pc = "store" ->
           callResult([c EXCEPT !.pc = "audit"], orders,
                      store(idem, c.key, 201, c.response), audit)
      [] c.pc = "audit" ->
           callResult(createDone(c, "ok", c.response), orders, idem,
                      auditCreate(audit,
                          [action |-> "ORDER_CREATED", entityType |-> "Order",
                           entityId |-> c.order.id, previousState |-> NoRow,
                           newState |-> c.order,
                           correlationId |-> uuidv4(audit),
                           userId |-> c.customerId]))

\* Restaurant r1 is ACTIVE with a subscription valid up to MaxTime; no
\* order has been placed.
CreateInit ==
    /\ now = 0
    /\ IdleEntity
    /\ IdleRent
    /\ IdleSent
    /\ runs = <<>>
    /\ faults = MaxFaults
    /\ calls = [w \in CallIds |-> IdleCreate]
    /\ restaurants =
          [id \in RestaurantIds |->
              RestaurantProps(id, "ACTIVE", "u1", NullDate, 0)]
    /\ subs = [id \in SubscriptionIds |->
                  SubscriptionProps(id, "ACTIVE", "r1", Date(0),
                                    Date(MaxTime), 0)]
    /\ orders = [id \in OrderIds |-> NoRow]
    /\ products = [id \in ProductIds |-> NoRow]
    /\ idem = [k \in Keys |-> NoRecord]
    /\ audit = <<>>
    /\ last = NoRow

\* A customer's request reaches a free worker.
CreateStart(w) ==
    /\ calls[w].pc = "idle"
    /\ \E c \in CreateCustomers, key \in Keys :
          calls' = [calls EXCEPT ![w] =
                       [IdleCreate EXCEPT !.pc = "check", !.key = key,
                                          !.customerId = c]]
    /\ UNCHANGED <<now, entityVars, rentVars, sentVars, sweepVars, storeVars>>

\* The next await of a call returns.
CreateReturn(w) ==
    /\ calls[w].pc \notin {"idle", "done"}
    /\ LET n == createStep(calls[w]) IN
          /\ calls' = [calls EXCEPT ![w] = n.call]
          /\ orders' = n.orders
          /\ idem' = n.idem
          /\ audit' = n.audit
    /\ UNCHANGED <<now, entityVars, rentVars, sentVars, sweepVars, products,
                   restaurants, subs, last>>

\* The next await of a call throws (the cache or the database is not
\* reachable): the call ends with the error and writes nothing more.
CreateThrow(w) ==
    /\ calls[w].pc \notin {"idle", "done"}
    /\ faults > 0
    /\ faults' = faults - 1
    /\ calls' = [calls EXCEPT ![w] = createDone(calls[w], "Error", NoRow)]
    /\ UNCHANGED <<now, entityVars, rentVars, sentVars, runs, storeVars>>

\* The response is sent and the worker is free again.
CreateEnd(w) ==
    /\ calls[w].pc = "done"
    /\ calls' = [calls EXCEPT ![w] = IdleCreate]
    /\ UNCHANGED <<now, entityVars, rentVars, sentVars, sweepVars, storeVars>>

\* The clock advances by more than the TTL of the records: the cache
\* drops them.  A call takes less than one tick.
CreateTick ==
    /\ \A w \in CallIds : calls[w].pc = "idle"
    /\ Tick
    /\ idem' = [k \in Keys |-> NoRecord]
    /\ UNCHANGED <<calls, entityVars, rentVars, sentVars, sweepVars, orders,
                   products, restaurants, subs, audit, last>>

CreateNext ==
    \/ \E w \in CallIds : CreateStart(w)
    \/ \E w \in CallIds : CreateReturn(w)
    \/ \E w \in CallIds : CreateThrow(w)
    \/ \E w \in CallIds : CreateEnd(w)
    \/ CreateTick

SpecCreate == CreateInit /\ [][CreateNext]_vars

\* No two rows of the table carry the same idempotency key.
KeysUnique(table) ==
    \A a, b \in DOMAIN table :
       (table[a] # NoRow /\ table[b] # NoRow
        /\ table[a].idempotencyKey = table[b].idempotencyKey) => a = b

\* C32: no two persisted orders share an idempotency key, whether the
\* creates with one key come one after the other or at the same time; and
\* a create whose cache record is missing finds the order of its key in
\* the table, returns it and persists nothing.
C32_OneOrderPerKey ==
    [][/\ KeysUnique(orders')
       /\ \A w \in CallIds :
             (/\ calls[w].pc = "findByKey"
              /\ calls'[w] # calls[w]
              /\ calls'[w].outcome # "Error"
              /\ \E o \in OrderIds :
                    orders[o] # NoRow
                    /\ orders[o].idempotencyKey = calls[w].key)
             => /\ orders' = orders
                /\ calls'[w].pc = "done"
                /\ calls'[w].outcome = "ok"
                /\ \E o \in OrderIds :
                      /\ orders[o] # NoRow
                      /\ orders[o].idempotencyKey = calls[w].key
                      /\ calls'[w].response = toOrderResponseDto(orders[o])
      ]_vars

\* Two creates with one key ran at the same time and the insert of the
\* second failed; the first lost its cache record, and its retry was
\* answered from the table.
C32_Witness ==
    \E w, v \in CallIds :
       /\ calls[w].pc = "done" /\ calls[w].outcome = "InsertFailed"
       /\ calls[v].pc = "done" /\ calls[v].outcome = "ok"
       /\ calls[v].key = calls[w].key
       /\ idem[calls[v].key] = NoRecord
       /\ Cardinality({o \in OrderIds : orders[o] # NoRow}) = 1

\* C34: every persisted order mutation has a matching audit entry, also
\* after a step of the operation failed and the client retried with the
\* same key: once a create has answered with success and no other call is
\* under way, the order of its key has its ORDER_CREATED entry.
C34_MutationIsAudited ==
    \A w \in CallIds :
       (/\ calls[w].pc = "done"
        /\ calls[w].outcome = "ok"
        /\ \A v \in CallIds \ {w} : calls[v].pc \in {"idle", "done"})
       => \A o \in OrderIds :
             (orders[o] # NoRow /\ orders[o].idempotencyKey = calls[w].key)
             => \E i \in DOMAIN audit :
                   /\ audit[i].action = "ORDER_CREATED"
                   /\ audit[i].entityId = o

\* C39: a guarded operation never answers an actor with the data of
\* another: a create that returns successfully returns an order of the
\* customer who called, whatever key the customer sent.
C39_NoForeignResponse ==
    \A w \in CallIds :
       (calls[w].pc = "done" /\ calls[w].outcome = "ok")
       => calls[w].response.customerId = calls[w].customerId

\* Reasons a dashboard request carries that pass its validation.
GivenReasons == {<<"a">>, <<"b">>}

\* The call r of a dashboard action on the order id succeeded, returned
\* the order as stored and wrote neither a row nor an audit entry.
ShortCircuits(r, id) ==
    /\ r.res.outcome = "ok"
    /\ r.res.body = toOrderResponseDto(orders[id])
    /\ r.orders = orders
    /\ r.products = products
    /\ r.audit = audit

\* C33: acceptOrder, rejectOrder, cancelOrder and reportOrder called by
\* the owner of the restaurant with a key that has no record, on an order
\* that is already ACCEPTED, REJECTED, CANCELLED or REPORTED respectively,
\* succeed, return the order as stored, update no row and append no audit
\* entry; the stored reason stays, whatever reason the call carries.
C33_AlreadyInTargetStatus ==
    \A id \in OrderIds, key \in Keys, u \in Owners :
       (/\ orders[id] # NoRow
        /\ idem[key] = NoRecord
        /\ restaurantFindById(orders[id].restaurantId) # NoRow
        /\ restaurantFindById(orders[id].restaurantId).ownerId = u)
       => /\ isAccepted(orders[id]) =>
                ShortCircuits(acceptOrder(id, u, key), id)
          /\ orders[id].status = "REJECTED" =>
                \A reason \in GivenReasons :
                   ShortCircuits(rejectOrder(id, reason, u, key), id)
          /\ orders[id].status = "CANCELLED" =>
                \A reason \in GivenReasons \cup {Undefined} :
                   ShortCircuits(cancelOrder(id, reason, u, key), id)
          /\ orders[id].status = "REPORTED" =>
                \A reason \in GivenReasons :
                   ShortCircuits(reportOrder(id, reason, u, key), id)

\* An order was cancelled with reason "a"; a key without a record is at
\* hand, and the owner's cancelOrder with reason "b" returns through the
\* short-circuit.
C33_Witness ==
    \E id \in OrderIds, key \in Keys :
       /\ orders[id] # NoRow
       /\ orders[id].status = "CANCELLED"
       /\ orders[id].cancellationReason = <<"a">>
       /\ idem[key] = NoRecord
       /\ cancelOrder(id, <<"b">>, "u1", key).res.path = "already"

\* C35: in every persisted order a rejectionReason is set only on a
\* REJECTED order, a reportReason only on a REPORTED one and a
\* cancellationReason only on a CANCELLED one, and every REJECTED or
\* REPORTED order carries a non-blank reason in its field.
C35_ReasonsMatchStatus ==
    \A id \in OrderIds :
       orders[id] # NoRow =>
          /\ orders[id].rejectionReason # Null => orders[id].status = "REJECTED"
          /\ orders[id].reportReason # Null => orders[id].status = "REPORTED"
          /\ orders[id].cancellationReason # Null =>
                orders[id].status = "CANCELLED"
          /\ orders[id].status = "REJECTED" =>
                ~BlankReason(orders[id].rejectionReason)
          /\ orders[id].status = "REPORTED" =>
                ~BlankReason(orders[id].reportReason)

\* RestaurantUseCase.canReceiveOrders
restaurantCanReceiveOrders(restaurantId) ==
    LET restaurant == restaurantFindById(restaurantId)
        subscription == findActiveByRestaurantId(restaurantId)
    IN IF restaurant = NoRow THEN FALSE
       ELSE IF ~isActive(restaurant) THEN FALSE
       ELSE subscription # NoRow /\ subscriptionIsValid(subscription, now)

\* C40: the customer-facing answers agree on the current subscription:
\* a restaurant is in the list of findAllVisible exactly when
\* canReceiveOrders is true of it, and exactly then an order creation
\* against it passes the restaurant and subscription checks.
C40_AnswersAgree ==
    \A restaurantId \in RestaurantIds :
       LET listed == \E r \in findAllVisible : r.id = restaurantId
           created == orderCreate([TheCreateDto EXCEPT
                                      !.restaurantId = restaurantId],
                                  "c1", "k1")
       IN /\ listed <=> restaurantCanReceiveOrders(restaurantId)
          /\ restaurantCanReceiveOrders(restaurantId)
                <=> created.res.outcome \notin {"NotFound", "Forbidden"}
=============================================================================
